---- MODULE Spec2Model ----
(***************************************************************************)
(* Model of the crusader client test engine (crusader-lib/src/test.rs):    *)
(* test_async (the orchestrator and phase sequencer), measure_latency,     *)
(* the upload and download loader tasks, the ping sender and receiver,     *)
(* the bandwidth (control connection reader) task and the assembly of the  *)
(* RawResult.  The server and the network are the environment.             *)
(***************************************************************************)
EXTENDS Integers, Sequences, FiniteSets, TLC

(* ----------------------------- bounds ---------------------------------- *)
\* config.streams ranges over 1..MaxStreams
MaxStreams == 2
\* Measure events the server sends on the control connection in one run
MaxMeasures == 1
\* payload reads that return data, over all download loaders of one run
MaxReads == 1
\* samples the counter tasks take before their stop flag is set, per run
MaxTicks == 1
\* pings the main ping sender sends in one run
MaxPings == 2
\* datagrams the main ping receiver records in one run
MaxRecv == 3
\* calibration pings (samples, 50 in the source, scaled down)
MaxSamples == 2
\* the clock stops advancing at MaxTime (microseconds since setup_start)
MaxTime == 2
\* u64 arithmetic is modelled modulo Wrap (2^64 in the source, scaled down)
Wrap == 16
\* the server clock is ahead of the client clock by 0 or by MaxSkew
MaxSkew == 2
\* datagrams that do not deserialize to a Ping, received in one run
MaxGarbage == 1
\* faults of the environment (server, control connection, loader setup) per run
MaxFaults == 1
\* config.load_duration, in ticks of the clock, of the tests that run the clock
\* through a load phase
MaxLoad == 1
\* payload buffer writes, over all upload loaders of one run
MaxWrites == 2

(* --------------------------- TestState ---------------------------------- *)
\* #[derive(PartialOrd, Ord)] orders the variants by declaration position
Setup == 0
Grace1 == 1
LoadFromClient == 2
Grace2 == 3
LoadFromServer == 4
Grace3 == 5
LoadFromBoth == 6
Grace4 == 7
End == 8
EndPingRecv == 9

TestState == Setup..EndPingRecv

(* ----------------------------- helpers ---------------------------------- *)
\* Duration::saturating_sub
saturating_sub(a, b) == IF a >= b THEN a - b ELSE 0

\* u64::wrapping_add
wrapping_add(a, b) == (a + b) % Wrap

\* a subtraction that stops at zero instead of wrapping
wrapping_sub_clamped(a, b) == IF a >= b THEN a - b ELSE 0

\* u64::wrapping_sub
wrapping_sub(a, b) == (a - b + Wrap) % Wrap

\* the four groups of loader tasks test_async can start
Kinds == {"upload", "both_upload", "download", "both_download"}
DownKinds == {"download", "both_download"}
UpKinds == {"upload", "both_upload"}

\* the TestStream group number upload_loaders is called with
GroupOf(kind) == IF kind = "upload" THEN 0 ELSE 1

\* the activating phase each group of loaders is started with
ActivatingState(kind) ==
    CASE kind = "upload" -> LoadFromClient
      [] kind = "both_upload" -> LoadFromBoth
      [] kind = "download" -> LoadFromServer
      [] kind = "both_download" -> LoadFromBoth

(* ------------------------------ state ----------------------------------- *)
VARIABLES
    config,             \* Config: download, upload, both, streams
    limits,             \* caps on the unbounded counters of this run
    pc,                 \* position of test_async
    error,              \* why test_async returned Err ("none" otherwise)
    state,              \* value held by the watch channel (-1: not created)
    closed,             \* state_tx was dropped
    emitted,            \* every value the channel was given, in order
    control,            \* messages the client sent on the control connection
    loader,             \* position of every loader task, by kind and ordinal
    semaphore,          \* permits of the four completion semaphores
    stream_done,        \* TestStreams the server reported MeasureStreamDone for
    bandwidth_pc,       \* position of the bandwidth task
    bandwidth,          \* Measure events collected by the bandwidth task
    bytes,              \* byte counter of every download loader
    measures,           \* samples of the counter task of every download loader
    left,               \* what remains of the per-run caps
    cal_sent,           \* storage of ping_measure_send
    cal_recv,           \* storage of ping_measure_recv
    cal_end,            \* the deadline of ping_measure_recv has passed
    cal_wire,           \* the index of every Ping ping_measure_send put on the socket
    latency,            \* measure_latency's result (-1: none)
    server_time_offset,
    ping_send_pc,       \* position of ping_send
    pings_sent,         \* storage of ping_send
    ping_recv_pc,       \* position of ping_recv
    storage,            \* storage of ping_recv
    now,                \* microseconds since setup_start
    skew,               \* server clock minus client clock
    std,                \* the standard library build linked in
    server,             \* the server: "up", "stalled" or "lost"
    cancel,             \* test_callback's oneshot sender, in the caller's hands
    callback_pc,        \* position of test_callback's thread ("none": test())
    delivered,          \* the values the done callback was called with, in order
    observed,           \* the phases every loader's wait_for_state has read
    recv_observed,      \* the phases ping_recv's wait_for_state has read
    aux,                \* messages sent on every loader's auxiliary connection
    wire,               \* the index of every Ping ping_send put on the socket
    stopping,           \* `stopping` of every upload loader (-1: not taken yet)
    upload_log,         \* the writes and yields of every upload loader, in order
    counter_pc,         \* position of the counter task of every download loader
    current,            \* (current_time, current_bytes) of every counter task
    gui_pc,             \* the GUI thread: "running", or "panicked" in a frame
    server_state,       \* Tester.server_state and Tester.remote_state
    server_record,      \* Tester.server and Tester.remote_server (<<>>: None)
    serve,              \* the thread serve_until started, and its channels
    latency_state,      \* Tester.latency_state
    latency_record,     \* Tester.latency (<<>>: None)
    monitor,            \* the thread latency::test_callback started
    result              \* the RawResult returned (<<>>: none yet)

vars == <<config, limits, pc, error, state, closed, emitted, control, loader,
          semaphore, stream_done, bandwidth_pc, bandwidth, bytes, measures,
          left, cal_sent, cal_recv, cal_end, cal_wire, latency,
          server_time_offset,
          ping_send_pc, pings_sent, ping_recv_pc, storage, now, skew, std,
          server, cancel, callback_pc, delivered, observed, recv_observed,
          aux, wire, stopping, upload_log, counter_pc, current, gui_pc,
          server_state, server_record, serve, latency_state, latency_record,
          monitor, result>>

loaderVars == <<loader, semaphore, stream_done, bandwidth, bytes, measures, left>>
calVars == <<cal_sent, cal_recv, cal_end, cal_wire>>
pingVars == <<ping_send_pc, pings_sent, ping_recv_pc, storage>>
orchVars == <<pc, error, state, closed, emitted, control, latency,
              server_time_offset, result>>
uploadVars == <<stopping, upload_log>>
counterVars == <<counter_pc, current>>
guiVars == <<gui_pc, server_state, server_record, serve, latency_state,
             latency_record, monitor>>
baseVars == <<config, limits, skew, std, server, cancel, callback_pc, delivered,
              guiVars>>
frameVars == <<baseVars, uploadVars, counterVars>>
histVars == <<observed, recv_observed, aux, wire>>
envVars == <<frameVars, histVars>>

Ordinals == 0..(config.streams - 1)

\* the time the server stamps an echoed ping with when the client clock reads t
ServerTime(t) == (t + skew) % Wrap

\* the two panels of the GUI that start a server: Tester::server and
\* Tester::remote
Panels == {"server", "remote"}

\* a thread that was not started, with its channels
NoThread == [thread |-> "none", started |-> "empty", done |-> "empty",
             stop |-> "none"]

Configs == [download : BOOLEAN, upload : BOOLEAN, both : BOOLEAN,
            streams : 1..MaxStreams]

InitCommon ==
    /\ pc = "connect"
    /\ error = "none"
    /\ state = -1
    /\ closed = FALSE
    /\ emitted = <<>>
    /\ control = <<>>
    /\ loader = [k \in Kinds |-> [i \in Ordinals |-> "none"]]
    /\ semaphore = [k \in Kinds |-> 0]
    /\ stream_done = {}
    /\ bandwidth_pc = "none"
    /\ bandwidth = <<>>
    /\ bytes = [k \in DownKinds |-> [i \in Ordinals |-> 0]]
    /\ measures = [k \in DownKinds |-> [i \in Ordinals |-> <<>>]]
    /\ left = [measures |-> limits.measures, reads |-> limits.reads,
               ticks |-> limits.ticks, faults |-> limits.faults,
               garbage |-> limits.garbage, writes |-> limits.writes]
    /\ stopping = [k \in UpKinds |-> [i \in Ordinals |-> -1]]
    /\ upload_log = [k \in UpKinds |-> [i \in Ordinals |-> <<>>]]
    /\ counter_pc = [k \in DownKinds |-> [i \in Ordinals |-> "none"]]
    /\ current = [k \in DownKinds |-> [i \in Ordinals |-> <<0, 0>>]]
    /\ gui_pc = "running"
    /\ server_state = [p \in Panels |-> "Stopped"]
    /\ server_record = [p \in Panels |-> <<>>]
    /\ serve = [p \in Panels |-> NoThread]
    /\ latency_state = "Stopped"
    /\ latency_record = <<>>
    /\ monitor = NoThread
    /\ server = "up"
    /\ delivered = <<>>
    /\ observed = [k \in Kinds |-> [i \in Ordinals |-> <<>>]]
    /\ recv_observed = <<>>
    /\ aux = [k \in Kinds |-> [i \in Ordinals |-> <<>>]]
    /\ wire = <<>>
    /\ cal_sent = <<>>
    /\ cal_recv = <<>>
    /\ cal_end = FALSE
    /\ cal_wire = <<>>
    /\ latency = -1
    /\ server_time_offset = -1
    /\ ping_send_pc = "none"
    /\ pings_sent = <<>>
    /\ ping_recv_pc = "none"
    /\ storage = <<>>
    /\ now = 0
    /\ result = <<>>

\* every flag combination and stream count, with the clock standing still, no
\* main ping sent and the download loaders reading end-of-stream at once
Init ==
    /\ config \in Configs
    /\ limits = [pings |-> 0, recv |-> 0, samples |-> 1,
                 measures |-> MaxMeasures, reads |-> 0, ticks |-> 0,
                 faults |-> 0, garbage |-> 0,
                 writes |-> 0, load_duration |-> 0]
    /\ skew = 0
    \* no list of this specification holds two records of one index, so the
    \* two binary searches agree on every search it makes
    /\ std = "early_return"
    /\ cancel = "none"
    /\ callback_pc = "none"
    /\ InitCommon

(* ------------------- pure functions of the assembly --------------------- *)
\* sort_by_key left out: the list stays in arrival order
sort_by_key_skipped(s, keys) == s

\* slice::sort_by_key, a stable sort; keys[i] is the key of s[i].  An element
\* goes after the smaller keys and after the equal keys that preceded it.
sort_by_key(s, keys) ==
    LET rank(j) == Cardinality({i \in 1..Len(s) : keys[i] < keys[j]})
                 + Cardinality({i \in 1..j : keys[i] = keys[j]})
    IN  [p \in 1..Len(s) |-> s[CHOOSE j \in 1..Len(s) : rank(j) = p]]

\* the key closures |d| d.0.index and |d| d.1
index_keys(s) == [i \in 1..Len(s) |-> s[i].index]
latency_keys(s) == [i \in 1..Len(s) |-> s[i][2]]

\* slice::binary_search_by as the standard library wrote it from 1.52 on: the
\* first probe that compares equal is returned.  Positions are 0-based, -1 is Err.
RECURSIVE search_early_return(_, _, _, _)
search_early_return(keys, target, lo, hi) ==
    IF lo >= hi THEN -1
    ELSE LET mid == lo + ((hi - lo) \div 2) IN
         IF keys[mid + 1] < target THEN search_early_return(keys, target, mid + 1, hi)
         ELSE IF keys[mid + 1] > target THEN search_early_return(keys, target, lo, mid)
         ELSE mid

\* slice::binary_search_by in its branch-free form (before 1.52, and again in
\* recent releases): the probe moves right on Less and on Equal
RECURSIVE search_branchless(_, _, _, _)
search_branchless(keys, target, base, size) ==
    IF size > 1
    THEN LET half == size \div 2
             mid == base + half
         IN  search_branchless(keys, target,
                               IF keys[mid + 1] > target THEN base ELSE mid,
                               size - half)
    ELSE IF keys[base + 1] = target THEN base ELSE -1

\* the standard library builds whose binary search can be linked in
StdImpls == {"early_return", "branchless"}

\* binary_search_by_key(&(index as u32), |e| e.0.index).ok() over a sorted list
binary_search_by_key(s, target, impl) ==
    LET keys == [i \in 1..Len(s) |-> s[i].index] IN
    IF Len(s) = 0 THEN -1
    ELSE IF impl = "early_return" THEN search_early_return(keys, target, 0, Len(s))
    ELSE search_branchless(keys, target, 0, Len(s))

\* the RawLatency of one sent ping, from the received record it was matched with
RawLatency(rec, sent, offset) ==
    [total |-> saturating_sub(rec.recv, sent),
     up |-> saturating_sub(wrapping_add(rec.time, offset), sent)]

\* the join taking total from the record the search found and up from the
\* first record of that index
JoinPings_two_records(sent_list, recv_list, offset, impl) ==
    LET pings == sort_by_key(recv_list, index_keys(recv_list)) IN
    [i \in 1..Len(sent_list) |->
        LET ping == binary_search_by_key(pings, i - 1, impl)
            first == CHOOSE j \in 1..Len(pings) :
                        /\ pings[j].index = i - 1
                        /\ \A h \in 1..(j - 1) : pings[h].index # i - 1
        IN
        [index |-> i - 1,
         sent |-> sent_list[i],
         latency |-> IF ping = -1 THEN <<>>
                     ELSE <<[total |-> RawLatency(pings[ping + 1], sent_list[i], offset).total,
                             up |-> RawLatency(pings[first], sent_list[i], offset).up]>>]]

\* test_async, the join of pings_sent with the sorted pings received
JoinPings(sent_list, recv_list, offset, impl) ==
    LET pings == sort_by_key(recv_list, index_keys(recv_list)) IN
    [i \in 1..Len(sent_list) |->
        LET ping == binary_search_by_key(pings, i - 1, impl) IN
        [index |-> i - 1,
         sent |-> sent_list[i],
         latency |-> IF ping = -1 THEN <<>>
                     ELSE <<RawLatency(pings[ping + 1], sent_list[i], offset)>>]]

\* measure_latency after the join!: the matched samples (sent, latency,
\* server time), sorted by latency; <<>> when no ping was matched
CalibrationPings(sent_list, recv_list, impl) ==
    LET recv == sort_by_key(recv_list, index_keys(recv_list))
        found(i) == binary_search_by_key(recv, i - 1, impl)
        hits == SelectSeq([i \in 1..Len(sent_list) |-> i], LAMBDA i : found(i) # -1)
        pings == [k \in 1..Len(hits) |->
                    <<sent_list[hits[k]],
                      recv[found(hits[k]) + 1].recv - sent_list[hits[k]],
                      recv[found(hits[k]) + 1].time>>]
    IN  sort_by_key(pings, latency_keys(pings))

\* measure_latency taking the sample of the smallest round trip
measure_latency_minimum(pings) ==
    LET median == pings[1]
        server_pong == median[1] + (median[2] \div 2)
    IN  [latency |-> median[2],
         server_offset |-> wrapping_sub(server_pong % Wrap, median[3])]

\* measure_latency's Ok value from the sorted matched samples: the median
\* sample's latency and the server clock offset
measure_latency(pings) ==
    LET median == pings[(Len(pings) \div 2) + 1]
        server_pong == median[1] + (median[2] \div 2)
    IN  [latency |-> median[2],
         server_offset |-> wrapping_sub(server_pong % Wrap, median[3])]

\* to_raw: a RawStream from the (time, bytes) pairs of one stream
to_raw(data) == [j \in 1..Len(data) |-> [time |-> data[j][1], bytes |-> data[j][2]]]

\* wait_on_download_loaders: the loaders' results in ordinal order, in an
\* Option modelled as a sequence of at most one element
wait_on_download_loaders(present, kind) ==
    IF present THEN <<[i \in 1..config.streams |-> measures[kind][i - 1]]>> ELSE <<>>

\* add_down: one RawStreamGroup when the download data is Some
add_down(both, data) ==
    IF data = <<>> THEN <<>>
    ELSE <<[download |-> TRUE, both |-> both,
            streams |-> [i \in 1..Len(data[1]) |-> to_raw(data[1][i])]]>>

\* get_stream: the (time, bytes) pairs of the Measure events of one TestStream
get_stream(group, id) ==
    LET mine == SelectSeq(bandwidth,
                          LAMBDA e : e.stream.group = group /\ e.stream.id = id)
    IN  [j \in 1..Len(mine) |-> <<mine[j].time, mine[j].bytes>>]

\* one RawStream per upload stream that has Measure events only
get_raw_upload_bytes_seen(group) ==
    LET all == [i \in 1..config.streams |-> to_raw(get_stream(group, i - 1))]
    IN  SelectSeq(all, LAMBDA st : Len(st) > 0)

\* get_raw_upload_bytes: one RawStream per ordinal 0..loading_streams
get_raw_upload_bytes(group) ==
    [i \in 1..config.streams |-> to_raw(get_stream(group, i - 1))]

\* test_async, the assembly of raw_streams
StreamGroups ==
    add_down(FALSE, wait_on_download_loaders(config.download, "download"))
    \o add_down(TRUE, wait_on_download_loaders(config.both, "both_download"))
    \o (IF config.upload
        THEN <<[download |-> FALSE, both |-> FALSE, streams |-> get_raw_upload_bytes(0)]>>
        ELSE <<>>)
    \o (IF config.upload
        THEN <<[download |-> FALSE, both |-> TRUE, streams |-> get_raw_upload_bytes(1)]>>
        ELSE <<>>)

(* --------------------------- test_async --------------------------------- *)
\* state_tx.send(s)
Emit(s) == state' = s /\ emitted' = Append(emitted, s)

\* test_async returns Err(why): its locals, state_tx among them, are dropped
Fail(why) ==
    /\ pc' = "error"
    /\ error' = why
    /\ closed' = (state # -1)

\* whether test_async starts the loaders of a kind
Enabled(kind) ==
    CASE kind = "upload" -> config.upload
      [] kind = "both_upload" -> config.both
      [] kind = "download" -> config.download
      [] kind = "both_download" -> config.both

\* TcpStream::connect of the control connection succeeds
Connect ==
    /\ pc = "connect"
    /\ pc' = "hello"
    /\ UNCHANGED <<error, state, closed, emitted, control, latency,
                   server_time_offset, result>>
    /\ UNCHANGED <<envVars, loaderVars, calVars, pingVars, bandwidth_pc, now>>

\* TcpStream::connect fails: the ? returns the error
ConnectFail ==
    /\ pc = "connect"
    /\ Fail("ConnectFailed")
    /\ UNCHANGED <<state, emitted, control, latency, server_time_offset, result>>
    /\ UNCHANGED <<envVars, loaderVars, calVars, pingVars, bandwidth_pc, now>>

\* hello() returns Ok, then NewClient is sent and setup_start is taken
Hello ==
    /\ pc = "hello"
    /\ control' = control \o <<"Hello", "NewClient">>
    /\ pc' = "new_client"
    /\ UNCHANGED <<error, state, closed, emitted, latency, server_time_offset, result>>
    /\ UNCHANGED <<envVars, loaderVars, calVars, pingVars, bandwidth_pc, now>>

\* hello() reports the different Hello and returns Ok all the same
HelloMismatch_ignored ==
    /\ pc = "hello"
    /\ control' = control \o <<"Hello", "NewClient">>
    /\ pc' = "new_client"
    /\ error' = "MismatchedHello"
    /\ UNCHANGED <<state, closed, emitted, latency, server_time_offset, result>>
    /\ UNCHANGED <<envVars, loaderVars, calVars, pingVars, bandwidth_pc, now>>

\* hello() receives a different Hello and panics
HelloMismatch ==
    /\ pc = "hello"
    /\ control' = Append(control, "Hello")
    /\ pc' = "panicked"
    /\ error' = "MismatchedHello"
    /\ UNCHANGED <<state, closed, emitted, latency, server_time_offset, result>>
    /\ UNCHANGED <<envVars, loaderVars, calVars, pingVars, bandwidth_pc, now>>

\* the reply to NewClient recorded as an error without returning it
NewClientReply_lenient ==
    /\ pc = "new_client"
    /\ \E reply \in {"Some", "None", "Other"} :
          /\ pc' = "measure_latency"
          /\ error' = CASE reply = "Some" -> error
                         [] reply = "None" -> "ServerRejected"
                         [] reply = "Other" -> "UnexpectedMessage"
          /\ UNCHANGED closed
    /\ UNCHANGED <<state, emitted, control, latency, server_time_offset, result>>
    /\ UNCHANGED <<envVars, loaderVars, calVars, pingVars, bandwidth_pc, now>>

\* the reply to NewClient: Some(id) goes on to measure_latency, NewClient(None)
\* and any other message return an error
NewClientReply ==
    /\ pc = "new_client"
    /\ \E reply \in {"Some", "None", "Other"} :
          IF reply = "Some"
          THEN pc' = "measure_latency" /\ UNCHANGED <<error, closed>>
          ELSE Fail(IF reply = "None" THEN "ServerRejected" ELSE "UnexpectedMessage")
    /\ UNCHANGED <<state, emitted, control, latency, server_time_offset, result>>
    /\ UNCHANGED <<envVars, loaderVars, calVars, pingVars, bandwidth_pc, now>>

(* -------------------------- measure_latency ----------------------------- *)
\* ping_measure_send: one iteration of `for index in 0..samples`, Ping{index}
\* sent and setup_start.elapsed() pushed
PingMeasureSend ==
    /\ pc = "measure_latency"
    /\ Len(cal_sent) < limits.samples
    /\ cal_wire' = Append(cal_wire, Len(cal_sent))
    /\ cal_sent' = Append(cal_sent, now)
    /\ UNCHANGED <<cal_recv, cal_end>>
    /\ UNCHANGED <<orchVars, envVars, loaderVars, pingVars, bandwidth_pc, now>>

\* ping_measure_recv: one datagram received before the deadline.  The server
\* echoed calibration ping i at some time t between its send and now, stamped
\* with its own clock; the network may deliver an echo late, twice or never.
PingMeasureRecv ==
    /\ pc = "measure_latency"
    /\ ~cal_end
    /\ Len(cal_recv) < limits.samples
    /\ \E i \in 1..Len(cal_sent) : \E t \in cal_sent[i]..now :
          cal_recv' = Append(cal_recv,
                             [index |-> i - 1, time |-> ServerTime(t), recv |-> now])
    /\ UNCHANGED <<cal_sent, cal_end, cal_wire>>
    /\ UNCHANGED <<orchVars, envVars, loaderVars, pingVars, bandwidth_pc, now>>

\* the receive loop breaking only once it holds a datagram for every sample
PingMeasureDeadline_when_full ==
    /\ pc = "measure_latency"
    /\ ~cal_end
    /\ Len(cal_recv) = limits.samples
    /\ cal_end' = TRUE
    /\ UNCHANGED <<cal_sent, cal_recv, cal_wire>>
    /\ UNCHANGED <<orchVars, envVars, loaderVars, pingVars, bandwidth_pc, now>>

\* ping_measure_recv: the end timer fires and the loop breaks
PingMeasureDeadline ==
    /\ pc = "measure_latency"
    /\ ~cal_end
    /\ cal_end' = TRUE
    /\ UNCHANGED <<cal_sent, cal_recv, cal_wire>>
    /\ UNCHANGED <<orchVars, envVars, loaderVars, pingVars, bandwidth_pc, now>>

\* measure_latency falling back to a zero latency and offset when no ping
\* was matched
MeasureLatency_fallback ==
    /\ pc = "measure_latency"
    /\ Len(cal_sent) = limits.samples
    /\ cal_end
    /\ LET pings == CalibrationPings(cal_sent, cal_recv, std) IN
       IF pings = <<>>
       THEN latency' = 0 /\ server_time_offset' = 0
       ELSE /\ latency' = measure_latency(pings).latency
            /\ server_time_offset' = measure_latency(pings).server_offset
    /\ pc' = "spawn"
    /\ cal_sent' = <<>>
    /\ cal_recv' = <<>>
    /\ cal_end' = FALSE
    /\ UNCHANGED cal_wire
    /\ UNCHANGED <<error, closed, state, emitted, control, result>>
    /\ UNCHANGED <<envVars, loaderVars, pingVars, bandwidth_pc, now>>

\* measure_latency after join!(ping_send, ping_recv): Err when no ping was
\* matched, else the median sample; its sockets and lists are dropped
MeasureLatency ==
    /\ pc = "measure_latency"
    /\ Len(cal_sent) = limits.samples
    /\ cal_end
    /\ LET pings == CalibrationPings(cal_sent, cal_recv, std) IN
       IF pings = <<>>
       THEN /\ Fail("LatencyUnmeasurable")
            /\ UNCHANGED <<latency, server_time_offset>>
       ELSE /\ latency' = measure_latency(pings).latency
            /\ server_time_offset' = measure_latency(pings).server_offset
            /\ pc' = "spawn"
            /\ UNCHANGED <<error, closed>>
    /\ cal_sent' = <<>>
    /\ cal_recv' = <<>>
    /\ cal_end' = FALSE
    /\ UNCHANGED cal_wire
    /\ UNCHANGED <<state, emitted, control, result>>
    /\ UNCHANGED <<envVars, loaderVars, pingVars, bandwidth_pc, now>>

(* ----------------------- test_async, continued -------------------------- *)
\* lines 144-208: the watch channel is created holding Setup and the loader
\* tasks of the enabled phases are spawned
SpawnLoaders ==
    /\ pc = "spawn"
    /\ Emit(Setup)
    /\ loader' = [k \in Kinds |->
                    [i \in Ordinals |-> IF Enabled(k) THEN "connect" ELSE "none"]]
    /\ pc' = "get_measurements"
    /\ UNCHANGED <<error, closed, control, latency, server_time_offset, result>>
    /\ UNCHANGED <<semaphore, stream_done, bandwidth, bytes, measures, left>>
    /\ UNCHANGED <<envVars, calVars, pingVars, bandwidth_pc, now>>

\* lines 210-265: GetMeasurements is sent; the bandwidth, ping_send and
\* ping_recv tasks are spawned
GetMeasurements ==
    /\ pc = "get_measurements"
    /\ control' = Append(control, "GetMeasurements")
    /\ bandwidth_pc' = "running"
    /\ ping_send_pc' = "running"
    /\ ping_recv_pc' = "running"
    /\ pc' = "sleep"
    /\ UNCHANGED <<error, state, closed, emitted, latency, server_time_offset, result>>
    /\ UNCHANGED <<envVars, loaderVars, calVars, pings_sent, storage, now>>

\* lines 267-271: after the 100 ms sleep Grace1 is sent
SendGrace1 ==
    /\ pc = "sleep"
    /\ Emit(Grace1)
    /\ pc' = "grace1"
    /\ UNCHANGED <<error, closed, control, latency, server_time_offset, result>>
    /\ UNCHANGED <<envVars, loaderVars, calVars, pingVars, bandwidth_pc, now>>

\* the load blocks with the upload block tried before the download block
NextLoad_upload_first(done) ==
    IF done < 2 /\ config.upload THEN "upload"
    ELSE IF done < 1 /\ config.download THEN "download"
    ELSE IF done < 3 /\ config.both THEN "both"
    ELSE "end"

\* the first of the three load blocks after block number done whose `if` holds
NextLoad(done) ==
    IF done < 1 /\ config.download THEN "download"
    ELSE IF done < 2 /\ config.upload THEN "upload"
    ELSE IF done < 3 /\ config.both THEN "both"
    ELSE "end"

\* the load blocks test_async has passed when it sleeps in a grace period
BlocksDone(p) ==
    CASE p = "grace1" -> 0
      [] p = "grace2" -> 1
      [] p = "grace3" -> 2
      [] p = "grace4" -> 3

\* a grace sleep ends: the next enabled load phase is sent, or End after the last
GraceElapsed ==
    /\ pc \in {"grace1", "grace2", "grace3", "grace4"}
    /\ LET next == NextLoad(BlocksDone(pc)) IN
       CASE next = "download" -> Emit(LoadFromServer) /\ pc' = "acquire_download"
         [] next = "upload" -> Emit(LoadFromClient) /\ pc' = "acquire_upload"
         [] next = "both" -> Emit(LoadFromBoth) /\ pc' = "acquire_both_download"
         [] next = "end" -> Emit(End) /\ pc' = "drain"
    /\ UNCHANGED <<error, closed, control, latency, server_time_offset, result>>
    /\ UNCHANGED <<envVars, loaderVars, calVars, pingVars, bandwidth_pc, now>>

\* the download phase left on the first permit of its semaphore
AcquireDownload_one_permit ==
    /\ pc = "acquire_download"
    /\ semaphore["download"] >= 1
    /\ Emit(Grace2)
    /\ pc' = "grace2"
    /\ UNCHANGED <<error, closed, control, latency, server_time_offset, result>>
    /\ UNCHANGED <<envVars, loaderVars, calVars, pingVars, bandwidth_pc, now>>

\* semaphore.acquire_many(loading_streams) of the download group returns (the
\* permit is dropped at once, which gives the permits back); Grace2 is sent
AcquireDownload ==
    /\ pc = "acquire_download"
    /\ semaphore["download"] >= config.streams
    /\ Emit(Grace2)
    /\ pc' = "grace2"
    /\ UNCHANGED <<error, closed, control, latency, server_time_offset, result>>
    /\ UNCHANGED <<envVars, loaderVars, calVars, pingVars, bandwidth_pc, now>>

\* upload_semaphore.acquire_many(loading_streams) returns; Grace3 is sent
AcquireUpload ==
    /\ pc = "acquire_upload"
    /\ semaphore["upload"] >= config.streams
    /\ Emit(Grace3)
    /\ pc' = "grace3"
    /\ UNCHANGED <<error, closed, control, latency, server_time_offset, result>>
    /\ UNCHANGED <<envVars, loaderVars, calVars, pingVars, bandwidth_pc, now>>

\* the both_download semaphore's acquire_many returns
AcquireBothDownload ==
    /\ pc = "acquire_both_download"
    /\ semaphore["both_download"] >= config.streams
    /\ pc' = "acquire_both_upload"
    /\ UNCHANGED <<error, state, closed, emitted, control, latency,
                   server_time_offset, result>>
    /\ UNCHANGED <<envVars, loaderVars, calVars, pingVars, bandwidth_pc, now>>

\* the bidirectional phase left on the first permit of both_upload_semaphore
AcquireBothUpload_one_permit ==
    /\ pc = "acquire_both_upload"
    /\ semaphore["both_upload"] >= 1
    /\ Emit(Grace4)
    /\ pc' = "grace4"
    /\ UNCHANGED <<error, closed, control, latency, server_time_offset, result>>
    /\ UNCHANGED <<envVars, loaderVars, calVars, pingVars, bandwidth_pc, now>>

\* both_upload_semaphore.acquire_many returns; Grace4 is sent
AcquireBothUpload ==
    /\ pc = "acquire_both_upload"
    /\ semaphore["both_upload"] >= config.streams
    /\ Emit(Grace4)
    /\ pc' = "grace4"
    /\ UNCHANGED <<error, closed, control, latency, server_time_offset, result>>
    /\ UNCHANGED <<envVars, loaderVars, calVars, pingVars, bandwidth_pc, now>>

\* lines 311-312: after the 500 ms sleep EndPingRecv is sent
SendEndPingRecv ==
    /\ pc = "drain"
    /\ Emit(EndPingRecv)
    /\ pc' = "join_ping_send"
    /\ UNCHANGED <<error, closed, control, latency, server_time_offset, result>>
    /\ UNCHANGED <<envVars, loaderVars, calVars, pingVars, bandwidth_pc, now>>

\* lines 316-317: ping_send is joined, then Done is sent on the control connection
JoinPingSend ==
    /\ pc = "join_ping_send"
    /\ ping_send_pc = "done"
    /\ control' = Append(control, "Done")
    /\ pc' = "join_ping_recv"
    /\ UNCHANGED <<error, state, closed, emitted, latency, server_time_offset, result>>
    /\ UNCHANGED <<envVars, loaderVars, calVars, pingVars, bandwidth_pc, now>>

\* line 319: ping_recv is joined
JoinPingRecv ==
    /\ pc = "join_ping_recv"
    /\ ping_recv_pc = "done"
    /\ pc' = "join_bandwidth"
    /\ UNCHANGED <<error, state, closed, emitted, control, latency,
                   server_time_offset, result>>
    /\ UNCHANGED <<envVars, loaderVars, calVars, pingVars, bandwidth_pc, now>>

\* line 317: the control connection is gone and the send of Done fails; the ?
\* returns the error
SendDoneFail ==
    /\ pc = "join_ping_send"
    /\ ping_send_pc = "done"
    /\ server = "lost"
    /\ Fail("SendFailed")
    /\ UNCHANGED <<state, emitted, control, latency, server_time_offset, result>>
    /\ UNCHANGED <<envVars, loaderVars, calVars, pingVars, bandwidth_pc, now>>

\* line 319: ping_recv panicked; the ? returns the JoinError
JoinPingRecvFail ==
    /\ pc = "join_ping_recv"
    /\ ping_recv_pc = "panicked"
    /\ Fail("JoinError")
    /\ UNCHANGED <<state, emitted, control, latency, server_time_offset, result>>
    /\ UNCHANGED <<envVars, loaderVars, calVars, pingVars, bandwidth_pc, now>>

\* line 321: the bandwidth task panicked; the ? returns the JoinError
JoinBandwidthFail ==
    /\ pc = "join_bandwidth"
    /\ bandwidth_pc = "panicked"
    /\ Fail("JoinError")
    /\ UNCHANGED <<state, emitted, control, latency, server_time_offset, result>>
    /\ UNCHANGED <<envVars, loaderVars, calVars, pingVars, bandwidth_pc, now>>

\* the join of the bandwidth task taken for a success however the task ended
JoinBandwidth_any ==
    /\ pc = "join_bandwidth"
    /\ bandwidth_pc \in {"done", "panicked"}
    /\ pc' = "join_loaders"
    /\ UNCHANGED <<error, state, closed, emitted, control, latency,
                   server_time_offset, result>>
    /\ UNCHANGED <<envVars, loaderVars, calVars, pingVars, bandwidth_pc, now>>

\* line 321: the bandwidth task is joined
JoinBandwidth ==
    /\ pc = "join_bandwidth"
    /\ bandwidth_pc = "done"
    /\ pc' = "join_loaders"
    /\ UNCHANGED <<error, state, closed, emitted, control, latency,
                   server_time_offset, result>>
    /\ UNCHANGED <<envVars, loaderVars, calVars, pingVars, bandwidth_pc, now>>

\* lines 323-426: the download loaders of both groups are joined, then the
\* pings and the stream groups are assembled and the RawResult is returned
Assemble ==
    /\ pc = "join_loaders"
    /\ \A k \in DownKinds : \A i \in Ordinals :
          Enabled(k) => loader[k][i] = "returned"
    /\ result' = <<[stream_groups |-> StreamGroups,
                    pings |-> JoinPings(pings_sent, storage, server_time_offset, std)]>>
    /\ pc' = "done"
    /\ closed' = TRUE
    /\ UNCHANGED <<error, state, emitted, control, latency, server_time_offset>>
    /\ UNCHANGED <<envVars, loaderVars, calVars, pingVars, bandwidth_pc, now>>

(* ------------------------------ loaders --------------------------------- *)
SetLoader(k, i, p) == loader' = [loader EXCEPT ![k][i] = p]

\* send(): messages written to the auxiliary connection of a loader, each
\* with its TestStream (<<>> for a message that carries none)
SendAux(k, i, msgs, stream) ==
    aux' = [aux EXCEPT ![k][i] =
               @ \o [n \in 1..Len(msgs) |-> [msg |-> msgs[n], stream |-> stream]]]

\* setup_loaders: the auxiliary connection is opened, hello() returns and
\* Associate(id) is sent; the loader task's loader.await returns
LoaderSetup(k, i) ==
    /\ loader[k][i] = "connect"
    /\ SetLoader(k, i, "wait")
    /\ SendAux(k, i, <<"Hello", "Associate">>, <<>>)
    /\ UNCHANGED <<semaphore, stream_done, bandwidth, bytes, measures, left>>
    /\ UNCHANGED <<orchVars, frameVars, observed, recv_observed, wire>>
    /\ UNCHANGED <<calVars, pingVars, bandwidth_pc, now>>

\* wait_for_state: borrow_and_update() reads the activating phase
LoaderObserve(k, i) ==
    /\ loader[k][i] = "wait"
    /\ state = ActivatingState(k)
    /\ SetLoader(k, i, "stagger")
    /\ observed' = [observed EXCEPT ![k][i] = Append(@, state)]
    /\ UNCHANGED <<semaphore, stream_done, bandwidth, bytes, measures, left>>
    /\ UNCHANGED <<orchVars, frameVars, recv_observed, aux, wire>>
    /\ UNCHANGED <<calVars, pingVars, bandwidth_pc, now>>

\* every upload loader of a group naming the group's stream 0
UploadSendLoad_same_id(k, i) ==
    /\ k \in UpKinds
    /\ loader[k][i] = "stagger"
    /\ now + limits.load_duration <= MaxTime
    /\ stopping' = [stopping EXCEPT ![k][i] = now + limits.load_duration]
    /\ SetLoader(k, i, "writing")
    /\ SendAux(k, i, <<"LoadFromClient">>, <<GroupOf(k), 0>>)
    /\ UNCHANGED <<semaphore, stream_done, bandwidth, bytes, measures, left>>
    /\ UNCHANGED <<orchVars, baseVars, counterVars, upload_log>>
    /\ UNCHANGED <<observed, recv_observed, wire>>
    /\ UNCHANGED <<calVars, pingVars, bandwidth_pc, now>>

\* upload_loaders: after the stagger sleep `stopping` is taken as
\* Instant::now() + load_duration (the clock has room for it), then
\* LoadFromClient{stream: (group, i)} is sent and the write loop is entered
UploadSendLoad(k, i) ==
    /\ k \in UpKinds
    /\ loader[k][i] = "stagger"
    /\ now + limits.load_duration <= MaxTime
    /\ stopping' = [stopping EXCEPT ![k][i] = now + limits.load_duration]
    /\ SetLoader(k, i, "writing")
    /\ SendAux(k, i, <<"LoadFromClient">>, <<GroupOf(k), i>>)
    /\ UNCHANGED <<semaphore, stream_done, bandwidth, bytes, measures, left>>
    /\ UNCHANGED <<orchVars, baseVars, counterVars, upload_log>>
    /\ UNCHANGED <<observed, recv_observed, wire>>
    /\ UNCHANGED <<calVars, pingVars, bandwidth_pc, now>>

\* an entry of upload_log: what the loader did, when, and how many pings
\* ping_send had put on the socket by then
UploadEvent(ev) == [ev |-> ev, time |-> now, pings |-> Len(wire)]

\* a payload write started without the check of the time
UploadWrite_unchecked(k, i) ==
    /\ k \in UpKinds
    /\ loader[k][i] = "writing"
    /\ left.writes > 0
    /\ SetLoader(k, i, "yield")
    /\ upload_log' = [upload_log EXCEPT ![k][i] = Append(@, UploadEvent("write"))]
    /\ left' = [left EXCEPT !.writes = @ - 1]
    /\ UNCHANGED <<semaphore, stream_done, bandwidth, bytes, measures>>
    /\ UNCHANGED <<orchVars, baseVars, counterVars, histVars, stopping>>
    /\ UNCHANGED <<calVars, pingVars, bandwidth_pc, now>>

\* a payload write that goes back to the check without yielding
UploadWrite_no_yield(k, i) ==
    /\ k \in UpKinds
    /\ loader[k][i] = "writing"
    /\ now < stopping[k][i]
    /\ left.writes > 0
    /\ SetLoader(k, i, "writing")
    /\ upload_log' = [upload_log EXCEPT ![k][i] = Append(@, UploadEvent("write"))]
    /\ left' = [left EXCEPT !.writes = @ - 1]
    /\ UNCHANGED <<semaphore, stream_done, bandwidth, bytes, measures>>
    /\ UNCHANGED <<orchVars, baseVars, counterVars, histVars, stopping>>
    /\ UNCHANGED <<calVars, pingVars, bandwidth_pc, now>>

\* upload_loaders: Instant::now() < stopping at the head of the loop and
\* write_all writes the payload buffer; the task is then at yield_now().await
UploadWrite(k, i) ==
    /\ k \in UpKinds
    /\ loader[k][i] = "writing"
    /\ now < stopping[k][i]
    /\ left.writes > 0
    /\ SetLoader(k, i, "yield")
    /\ upload_log' = [upload_log EXCEPT ![k][i] = Append(@, UploadEvent("write"))]
    /\ left' = [left EXCEPT !.writes = @ - 1]
    /\ UNCHANGED <<semaphore, stream_done, bandwidth, bytes, measures>>
    /\ UNCHANGED <<orchVars, baseVars, counterVars, histVars, stopping>>
    /\ UNCHANGED <<calVars, pingVars, bandwidth_pc, now>>

\* upload_loaders: the scheduler polls the task again after yield_now() and
\* the loop goes back to its head
UploadYield(k, i) ==
    /\ k \in UpKinds
    /\ loader[k][i] = "yield"
    /\ SetLoader(k, i, "writing")
    /\ upload_log' = [upload_log EXCEPT ![k][i] = Append(@, UploadEvent("yield"))]
    /\ UNCHANGED <<semaphore, stream_done, bandwidth, bytes, measures, left>>
    /\ UNCHANGED <<orchVars, baseVars, counterVars, histVars, stopping>>
    /\ UNCHANGED <<calVars, pingVars, bandwidth_pc, now>>

\* upload_loaders: Instant::now() >= stopping at the head of the loop, the
\* loop breaks and the task ends, which drops (closes) the connection
UploadStop(k, i) ==
    /\ k \in UpKinds
    /\ loader[k][i] = "writing"
    /\ now >= stopping[k][i]
    /\ SetLoader(k, i, "closed")
    /\ UNCHANGED <<semaphore, stream_done, bandwidth, bytes, measures, left>>
    /\ UNCHANGED <<orchVars, envVars, calVars, pingVars, bandwidth_pc, now>>

\* download_loaders: after the stagger sleep LoadFromServer is sent; the
\* companion task and the counter task are spawned and the read loop starts
DownloadSendLoad(k, i) ==
    /\ k \in DownKinds
    /\ loader[k][i] = "stagger"
    /\ SetLoader(k, i, "reading")
    /\ SendAux(k, i, <<"LoadFromServer">>, <<>>)
    /\ counter_pc' = [counter_pc EXCEPT ![k][i] = "tick"]
    /\ UNCHANGED <<semaphore, stream_done, bandwidth, bytes, measures, left>>
    /\ UNCHANGED <<orchVars, baseVars, uploadVars, current>>
    /\ UNCHANGED <<observed, recv_observed, wire>>
    /\ UNCHANGED <<calVars, pingVars, bandwidth_pc, now>>

\* download_loaders: rx.next() returns a size, added to the byte counter
DownloadRead(k, i) ==
    /\ k \in DownKinds
    /\ loader[k][i] \in {"reading", "stopping"}
    /\ left.reads > 0
    /\ bytes' = [bytes EXCEPT ![k][i] = @ + 1]
    /\ left' = [left EXCEPT !.reads = @ - 1]
    /\ UNCHANGED <<loader, semaphore, stream_done, bandwidth, measures>>
    /\ UNCHANGED <<orchVars, envVars, calVars, pingVars, bandwidth_pc, now>>

\* download_loaders: one iteration of the counter task while the stop flag is
\* unset, run without the reading task in between: tick, load, push, check
DownloadSample(k, i) ==
    /\ k \in DownKinds
    /\ loader[k][i] \in {"reading", "stopping"}
    /\ counter_pc[k][i] = "tick"
    /\ left.ticks > 0
    /\ measures' = [measures EXCEPT ![k][i] = Append(@, <<now, bytes[k][i]>>)]
    /\ left' = [left EXCEPT !.ticks = @ - 1]
    /\ UNCHANGED <<loader, semaphore, stream_done, bandwidth, bytes>>
    /\ UNCHANGED <<orchVars, envVars, calVars, pingVars, bandwidth_pc, now>>

\* download_loaders: the companion task sends Done after load_duration
DownloadDone(k, i) ==
    /\ k \in DownKinds
    /\ loader[k][i] = "reading"
    /\ SetLoader(k, i, "stopping")
    /\ SendAux(k, i, <<"Done">>, <<>>)
    /\ UNCHANGED <<semaphore, stream_done, bandwidth, bytes, measures, left>>
    /\ UNCHANGED <<orchVars, frameVars, observed, recv_observed, wire>>
    /\ UNCHANGED <<calVars, pingVars, bandwidth_pc, now>>

\* download_loaders: the server closed the stream (a server that died closes
\* it too, one that stalled does not), rx.next() returns None; the stop flag
\* is stored and one permit is added to the group's semaphore
DownloadEos(k, i) ==
    /\ k \in DownKinds
    /\ server # "stalled"
    /\ loader[k][i] = "stopping"
    /\ SetLoader(k, i, "eos")
    /\ semaphore' = [semaphore EXCEPT ![k] = @ + 1]
    /\ UNCHANGED <<stream_done, bandwidth, bytes, measures, left>>
    /\ UNCHANGED <<orchVars, envVars, calVars, pingVars, bandwidth_pc, now>>

\* the last sample pushed with the bytes since the previous sample
DownloadFinish_reset(k, i) ==
    /\ k \in DownKinds
    /\ loader[k][i] = "eos"
    /\ counter_pc[k][i] = "tick"
    /\ measures' = [measures EXCEPT ![k][i] =
                        Append(@, <<now, IF @ = <<>> THEN bytes[k][i]
                                         ELSE bytes[k][i] - @[Len(@)][2]>>)]
    /\ SetLoader(k, i, "returned")
    /\ counter_pc' = [counter_pc EXCEPT ![k][i] = "finished"]
    /\ UNCHANGED <<semaphore, stream_done, bandwidth, bytes, left>>
    /\ UNCHANGED <<orchVars, baseVars, uploadVars, current, histVars>>
    /\ UNCHANGED <<calVars, pingVars, bandwidth_pc, now>>

\* download_loaders: the iteration of the counter task after the stop flag was
\* stored, run without the reading task in between: its tick pushes a sample,
\* sees the flag and breaks; measures.await returns and the loader task ends
DownloadFinish(k, i) ==
    /\ k \in DownKinds
    /\ loader[k][i] = "eos"
    /\ counter_pc[k][i] = "tick"
    /\ measures' = [measures EXCEPT ![k][i] = Append(@, <<now, bytes[k][i]>>)]
    /\ SetLoader(k, i, "returned")
    /\ counter_pc' = [counter_pc EXCEPT ![k][i] = "finished"]
    /\ UNCHANGED <<semaphore, stream_done, bandwidth, bytes, left>>
    /\ UNCHANGED <<orchVars, baseVars, uploadVars, current, histVars>>
    /\ UNCHANGED <<calVars, pingVars, bandwidth_pc, now>>

(* ------------- the counter task, statement by statement ----------------- *)
\* the stop flag `done` of a loader's counter task: stored once the read loop
\* has ended
DoneFlag(k, i) == loader[k][i] \in {"eos", "returned"}

\* the counter task: interval.tick() returns, Instant::now() is taken and the
\* byte counter is loaded (lines 681-684)
CounterLoad(k, i) ==
    /\ k \in DownKinds
    /\ counter_pc[k][i] = "tick"
    /\ IF DoneFlag(k, i) THEN UNCHANGED left
       ELSE left.ticks > 0 /\ left' = [left EXCEPT !.ticks = @ - 1]
    /\ current' = [current EXCEPT ![k][i] = <<now, bytes[k][i]>>]
    /\ counter_pc' = [counter_pc EXCEPT ![k][i] = "loaded"]
    /\ UNCHANGED <<loader, semaphore, stream_done, bandwidth, bytes, measures>>
    /\ UNCHANGED <<orchVars, baseVars, uploadVars, histVars>>
    /\ UNCHANGED <<calVars, pingVars, bandwidth_pc, now>>

\* the counter task running on after it saw the stop flag
CounterPush_no_break(k, i) ==
    /\ k \in DownKinds
    /\ counter_pc[k][i] = "loaded"
    /\ measures' = [measures EXCEPT ![k][i] = Append(@, current[k][i])]
    /\ counter_pc' = [counter_pc EXCEPT ![k][i] =
                         IF DoneFlag(k, i) /\ Len(measures[k][i]) >= 2
                         THEN "finished" ELSE "tick"]
    /\ UNCHANGED <<loader, semaphore, stream_done, bandwidth, bytes, left>>
    /\ UNCHANGED <<orchVars, baseVars, uploadVars, histVars, current>>
    /\ UNCHANGED <<calVars, pingVars, bandwidth_pc, now>>

\* the counter task: the sample is pushed and the stop flag is loaded; the
\* loop breaks when it is set (lines 686-693)
CounterPush(k, i) ==
    /\ k \in DownKinds
    /\ counter_pc[k][i] = "loaded"
    /\ measures' = [measures EXCEPT ![k][i] = Append(@, current[k][i])]
    /\ counter_pc' = [counter_pc EXCEPT ![k][i] =
                         IF DoneFlag(k, i) THEN "finished" ELSE "tick"]
    /\ UNCHANGED <<loader, semaphore, stream_done, bandwidth, bytes, left>>
    /\ UNCHANGED <<orchVars, baseVars, uploadVars, histVars, current>>
    /\ UNCHANGED <<calVars, pingVars, bandwidth_pc, now>>

\* download_loaders: measures.await returns the samples of the counter task
\* that has ended and the loader task ends (line 708)
DownloadJoin(k, i) ==
    /\ k \in DownKinds
    /\ loader[k][i] = "eos"
    /\ counter_pc[k][i] = "finished"
    /\ SetLoader(k, i, "returned")
    /\ UNCHANGED <<semaphore, stream_done, bandwidth, bytes, measures, left>>
    /\ UNCHANGED <<orchVars, envVars, calVars, pingVars, bandwidth_pc, now>>

(* --------------------------- bandwidth task ----------------------------- *)
\* the semaphore the bandwidth task adds a permit to for stream.group
UploadSemaphoreOf(group) == IF group = 0 THEN "upload" ELSE "both_upload"

\* the server samples an upload stream it is receiving and the bandwidth task
\* receives ServerMessage::Measure{stream, time, bytes}
Measure(k, i) ==
    /\ k \in UpKinds
    /\ server = "up"
    /\ bandwidth_pc = "running"
    /\ loader[k][i] \in {"writing", "yield", "closed"}
    /\ <<GroupOf(k), i>> \notin stream_done
    /\ left.measures > 0
    /\ bandwidth' = Append(bandwidth,
                           [stream |-> [group |-> GroupOf(k), id |-> i],
                            time |-> ServerTime(now), bytes |-> 1])
    /\ left' = [left EXCEPT !.measures = @ - 1]
    /\ UNCHANGED <<loader, semaphore, stream_done, bytes, measures>>
    /\ UNCHANGED <<orchVars, envVars, calVars, pingVars, bandwidth_pc, now>>

\* the server saw an upload stream end and the bandwidth task receives
\* ServerMessage::MeasureStreamDone{stream}
MeasureStreamDone(k, i) ==
    /\ k \in UpKinds
    /\ server = "up"
    /\ bandwidth_pc = "running"
    /\ loader[k][i] = "closed"
    /\ <<GroupOf(k), i>> \notin stream_done
    /\ stream_done' = stream_done \cup {<<GroupOf(k), i>>}
    /\ semaphore' = [semaphore EXCEPT ![UploadSemaphoreOf(GroupOf(k))] = @ + 1]
    /\ UNCHANGED <<loader, bandwidth, bytes, measures, left>>
    /\ UNCHANGED <<orchVars, envVars, calVars, pingVars, bandwidth_pc, now>>

\* the server answers the control connection's Done and the bandwidth task
\* receives ServerMessage::MeasurementsDone: its loop breaks
MeasurementsDone ==
    /\ server = "up"
    /\ bandwidth_pc = "running"
    /\ Len(control) > 0 /\ control[Len(control)] = "Done"
    /\ bandwidth_pc' = "done"
    /\ UNCHANGED <<orchVars, envVars, loaderVars, calVars, pingVars, now>>

(* ------------------------------ ping tasks ------------------------------ *)
\* ping_send numbering its pings from 1
PingSend_index_from_one ==
    /\ ping_send_pc = "running"
    /\ state < End
    /\ Len(pings_sent) < limits.pings
    /\ wire' = Append(wire, Len(pings_sent) + 1)
    /\ pings_sent' = Append(pings_sent, now)
    /\ UNCHANGED <<ping_send_pc, ping_recv_pc, storage>>
    /\ UNCHANGED <<orchVars, frameVars, observed, recv_observed, aux>>
    /\ UNCHANGED <<loaderVars, calVars, bandwidth_pc, now>>

\* ping_send: a tick with the phase below End; Ping{index: storage.len()} is
\* sent and setup_start.elapsed() is pushed
PingSend ==
    /\ ping_send_pc = "running"
    /\ state < End
    /\ Len(pings_sent) < limits.pings
    /\ wire' = Append(wire, Len(pings_sent))
    /\ pings_sent' = Append(pings_sent, now)
    /\ UNCHANGED <<ping_send_pc, ping_recv_pc, storage>>
    /\ UNCHANGED <<orchVars, frameVars, observed, recv_observed, aux>>
    /\ UNCHANGED <<loaderVars, calVars, bandwidth_pc, now>>

\* ping_send breaking on a tick whatever the phase
PingSendBreak_any_phase ==
    /\ ping_send_pc = "running"
    /\ ping_send_pc' = "done"
    /\ UNCHANGED <<pings_sent, ping_recv_pc, storage>>
    /\ UNCHANGED <<orchVars, envVars, loaderVars, calVars, bandwidth_pc, now>>

\* ping_send: a tick with the phase at End or later; the loop breaks
PingSendBreak ==
    /\ ping_send_pc = "running"
    /\ state >= End
    /\ ping_send_pc' = "done"
    /\ UNCHANGED <<pings_sent, ping_recv_pc, storage>>
    /\ UNCHANGED <<orchVars, envVars, loaderVars, calVars, bandwidth_pc, now>>

\* ping_recv: one datagram received.  The server echoed ping i at some time t
\* between its send and now, stamped with its own clock; the network may
\* deliver an echo late, out of order, twice or never.
PingRecv ==
    /\ ping_recv_pc = "running"
    /\ Len(storage) < limits.recv
    /\ \E i \in 1..Len(pings_sent) : \E t \in pings_sent[i]..now :
          storage' = Append(storage,
                            [index |-> i - 1, time |-> ServerTime(t), recv |-> now])
    /\ UNCHANGED <<ping_send_pc, pings_sent, ping_recv_pc>>
    /\ UNCHANGED <<orchVars, envVars, loaderVars, calVars, bandwidth_pc, now>>

\* ping_recv: a datagram that deserializes to a Ping with an index the sender
\* never reaches
PingRecvStray ==
    /\ ping_recv_pc = "running"
    /\ Len(storage) < limits.recv
    /\ storage' = Append(storage,
                         [index |-> limits.pings, time |-> ServerTime(now), recv |-> now])
    /\ UNCHANGED <<ping_send_pc, pings_sent, ping_recv_pc>>
    /\ UNCHANGED <<orchVars, envVars, loaderVars, calVars, bandwidth_pc, now>>

\* ping_recv breaking as soon as the phase is End
PingRecvBreak_at_End ==
    /\ ping_recv_pc = "running"
    /\ state >= End
    /\ ping_recv_pc' = "done"
    /\ recv_observed' = Append(recv_observed, state)
    /\ UNCHANGED <<ping_send_pc, pings_sent, storage>>
    /\ UNCHANGED <<orchVars, frameVars, observed, aux, wire>>
    /\ UNCHANGED <<loaderVars, calVars, bandwidth_pc, now>>

\* ping_recv: wait_for_state(EndPingRecv) completes and the select! breaks
PingRecvBreak ==
    /\ ping_recv_pc = "running"
    /\ state = EndPingRecv
    /\ ping_recv_pc' = "done"
    /\ recv_observed' = Append(recv_observed, state)
    /\ UNCHANGED <<ping_send_pc, pings_sent, storage>>
    /\ UNCHANGED <<orchVars, frameVars, observed, aux, wire>>
    /\ UNCHANGED <<loaderVars, calVars, bandwidth_pc, now>>

\* time passes
Tick ==
    /\ now < MaxTime
    /\ now' = now + 1
    /\ UNCHANGED <<orchVars, envVars, loaderVars, calVars, pingVars, bandwidth_pc>>

(* --------------------------- the watch channel -------------------------- *)
\* changed() has something new for a receiver whose last read was seen: the
\* channel holds one value only, and every value is sent once
Changed(seen) == IF seen = <<>> THEN TRUE ELSE seen[Len(seen)] # state

\* wait_for_state in a loader: borrow_and_update() reads a phase that is not
\* the activating one and the loop goes back to changed().await
LoaderRead(k, i) ==
    /\ loader[k][i] = "wait"
    /\ state # ActivatingState(k)
    /\ Changed(observed[k][i])
    /\ observed' = [observed EXCEPT ![k][i] = Append(@, state)]
    /\ UNCHANGED <<orchVars, frameVars, recv_observed, aux, wire>>
    /\ UNCHANGED <<loaderVars, calVars, pingVars, bandwidth_pc, now>>

\* wait_for_state in ping_recv: borrow_and_update() reads a phase that is not
\* EndPingRecv
PingRecvRead ==
    /\ ping_recv_pc = "running"
    /\ state # EndPingRecv
    /\ Changed(recv_observed)
    /\ recv_observed' = Append(recv_observed, state)
    /\ UNCHANGED <<orchVars, frameVars, observed, aux, wire>>
    /\ UNCHANGED <<loaderVars, calVars, pingVars, bandwidth_pc, now>>

(* ------------------------------- faults --------------------------------- *)
\* what the environment cannot change in a fault
faultFrame == <<config, limits, skew, std, cancel, callback_pc, delivered,
               histVars, uploadVars, counterVars, guiVars>>

\* the control connection closes or fails: receive() returns an error and the
\* bandwidth task's unwrap() panics (line 225)
ControlLost ==
    /\ server = "up"
    /\ bandwidth_pc = "running"
    /\ left.faults > 0
    /\ server' = "lost"
    /\ bandwidth_pc' = "panicked"
    /\ left' = [left EXCEPT !.faults = @ - 1]
    /\ UNCHANGED <<loader, semaphore, stream_done, bandwidth, bytes, measures>>
    /\ UNCHANGED <<orchVars, faultFrame, calVars, pingVars, now>>

\* the server stops responding: no further message on the control connection,
\* no download stream closed; every connection stays open
ServerStall ==
    /\ server = "up"
    /\ bandwidth_pc = "running"
    /\ left.faults > 0
    /\ server' = "stalled"
    /\ left' = [left EXCEPT !.faults = @ - 1]
    /\ UNCHANGED <<loader, semaphore, stream_done, bandwidth, bytes, measures>>
    /\ UNCHANGED <<orchVars, faultFrame, calVars, pingVars, bandwidth_pc, now>>

\* setup_loaders: the connect's expect() or the unwrap() of hello() or of the
\* send of Associate panics; the loader task's loader.await.unwrap() panics
LoaderSetupFail(k, i) ==
    /\ loader[k][i] = "connect"
    /\ left.faults > 0
    /\ SetLoader(k, i, "panicked")
    /\ left' = [left EXCEPT !.faults = @ - 1]
    /\ UNCHANGED <<semaphore, stream_done, bandwidth, bytes, measures>>
    /\ UNCHANGED <<orchVars, envVars, calVars, pingVars, bandwidth_pc, now>>

\* download_loaders: rx.next() returns an error and size.unwrap() panics
\* before the stop flag is stored and the permit is added
DownloadReadFail(k, i) ==
    /\ k \in DownKinds
    /\ loader[k][i] \in {"reading", "stopping"}
    /\ left.faults > 0
    /\ SetLoader(k, i, "panicked")
    /\ left' = [left EXCEPT !.faults = @ - 1]
    /\ UNCHANGED <<semaphore, stream_done, bandwidth, bytes, measures>>
    /\ UNCHANGED <<orchVars, envVars, calVars, pingVars, bandwidth_pc, now>>

\* ping_recv: a datagram too short for a Ping; bincode::deserialize returns
\* Err and the unwrap() panics
PingRecvGarbage ==
    /\ ping_recv_pc = "running"
    /\ left.garbage > 0
    /\ ping_recv_pc' = "panicked"
    /\ left' = [left EXCEPT !.garbage = @ - 1]
    /\ UNCHANGED <<ping_send_pc, pings_sent, storage>>
    /\ UNCHANGED <<loader, semaphore, stream_done, bandwidth, bytes, measures>>
    /\ UNCHANGED <<orchVars, envVars, calVars, bandwidth_pc, now>>

\* ping_measure_recv: a datagram too short for a Ping; the task panics, join!
\* returns its JoinError and measure_latency's recv.unwrap() panics
PingMeasureRecvGarbage ==
    /\ pc = "measure_latency"
    /\ ~cal_end
    /\ left.garbage > 0
    /\ pc' = "panicked"
    /\ error' = "JoinError"
    /\ left' = [left EXCEPT !.garbage = @ - 1]
    /\ UNCHANGED <<state, closed, emitted, control, latency, server_time_offset, result>>
    /\ UNCHANGED <<loader, semaphore, stream_done, bandwidth, bytes, measures>>
    /\ UNCHANGED <<envVars, calVars, pingVars, bandwidth_pc, now>>

\* line 210: the control connection fails as GetMeasurements is sent; the ?
\* returns the error and state_tx is dropped with the loader tasks spawned
GetMeasurementsFail ==
    /\ pc = "get_measurements"
    /\ left.faults > 0
    /\ server' = "lost"
    /\ Fail("SendFailed")
    /\ left' = [left EXCEPT !.faults = @ - 1]
    /\ UNCHANGED <<state, emitted, control, latency, server_time_offset, result>>
    /\ UNCHANGED <<loader, semaphore, stream_done, bandwidth, bytes, measures>>
    /\ UNCHANGED <<faultFrame, calVars, pingVars, bandwidth_pc, now>>

\* wait_for_state taking the error of changed() for the awaited phase
LoaderClosed_proceeds(k, i) ==
    /\ loader[k][i] = "wait"
    /\ closed
    /\ state # ActivatingState(k)
    /\ SetLoader(k, i, "stagger")
    /\ UNCHANGED <<semaphore, stream_done, bandwidth, bytes, measures, left>>
    /\ UNCHANGED <<orchVars, envVars, calVars, pingVars, bandwidth_pc, now>>

\* wait_for_state on a channel whose sender was dropped: the value it holds
\* is not the awaited one, changed() returns Err and the unwrap() panics,
\* which ends the loader task (lines 717-720)
LoaderClosed(k, i) ==
    /\ loader[k][i] = "wait"
    /\ closed
    /\ state # ActivatingState(k)
    /\ SetLoader(k, i, "panicked")
    /\ UNCHANGED <<semaphore, stream_done, bandwidth, bytes, measures, left>>
    /\ UNCHANGED <<orchVars, envVars, calVars, pingVars, bandwidth_pc, now>>

(* ---------------------------- test_callback ----------------------------- *)
\* what the caller and the callback thread cannot change
callbackFrame == <<config, limits, skew, std, server, histVars, uploadVars,
                  counterVars, guiVars>>

\* the test task has ended: test_async returned or panicked
Finished == pc \in {"done", "error", "panicked"}

\* the caller sends on the oneshot::Sender test_callback returned
CancelSend ==
    /\ cancel = "held"
    /\ cancel' = IF Finished THEN "sent_late" ELSE "sent_early"
    /\ UNCHANGED <<callback_pc, delivered, callbackFrame>>
    /\ UNCHANGED <<orchVars, loaderVars, calVars, pingVars, bandwidth_pc, now>>

\* the caller drops the oneshot::Sender without sending
CancelDrop ==
    /\ cancel = "held"
    /\ cancel' = "dropped"
    /\ UNCHANGED <<callback_pc, delivered, callbackFrame>>
    /\ UNCHANGED <<orchVars, loaderVars, calVars, pingVars, bandwidth_pc, now>>

\* the done callback called with None whatever the oneshot holds
DeliverNone_unasked ==
    /\ callback_pc = "select"
    /\ delivered' = Append(delivered, "None")
    /\ callback_pc' = "called"
    /\ UNCHANGED <<cancel, callbackFrame>>
    /\ UNCHANGED <<orchVars, loaderVars, calVars, pingVars, bandwidth_pc, now>>

\* select! takes the rx branch: the oneshot holds the cancel signal, block_on
\* returns None and the done callback is called with it
DeliverNone ==
    /\ callback_pc = "select"
    /\ cancel \in {"sent_early", "sent_late"}
    /\ delivered' = Append(delivered, "None")
    /\ callback_pc' = "called"
    /\ UNCHANGED <<cancel, callbackFrame>>
    /\ UNCHANGED <<orchVars, loaderVars, calVars, pingVars, bandwidth_pc, now>>

\* select! takes the result branch: the JoinHandle of the test task is ready;
\* Ok(Ok(result)) becomes Some(Ok), Ok(Err(e)) and the JoinError of a panic
\* become Some(Err(string))
DeliverResult ==
    /\ callback_pc = "select"
    /\ Finished
    /\ delivered' = Append(delivered, IF pc = "done" THEN "Ok" ELSE "Err")
    /\ callback_pc' = "called"
    /\ UNCHANGED <<cancel, callbackFrame>>
    /\ UNCHANGED <<orchVars, loaderVars, calVars, pingVars, bandwidth_pc, now>>

\* where a task is left when its runtime shuts down
Abort(p) == IF p \in {"none", "done", "error", "panicked", "closed", "returned"}
            THEN p ELSE "aborted"

\* the Runtime is dropped: every task still running is cancelled at its await
Shutdown ==
    /\ pc' = Abort(pc)
    /\ closed' = (closed \/ state # -1)
    /\ loader' = [k \in Kinds |-> [i \in Ordinals |-> Abort(loader[k][i])]]
    /\ bandwidth_pc' = Abort(bandwidth_pc)
    /\ ping_send_pc' = Abort(ping_send_pc)
    /\ ping_recv_pc' = Abort(ping_recv_pc)
    /\ UNCHANGED <<error, state, emitted, control, latency, server_time_offset, result>>
    /\ UNCHANGED <<semaphore, stream_done, bandwidth, bytes, measures, left>>
    /\ UNCHANGED <<calVars, pings_sent, storage, now>>

\* select! takes the rx branch on a dropped sender: result.unwrap() panics on
\* Err(Canceled), the thread unwinds without calling done and drops the Runtime
CancelDroppedPanic ==
    /\ callback_pc = "select"
    /\ cancel = "dropped"
    /\ callback_pc' = "panicked"
    /\ Shutdown
    /\ UNCHANGED <<cancel, delivered, callbackFrame>>

\* done has returned; the closure ends and the Runtime is dropped
RuntimeDrop ==
    /\ callback_pc = "called"
    /\ callback_pc' = "ended"
    /\ Shutdown
    /\ UNCHANGED <<cancel, delivered, callbackFrame>>

(* ------------------------------- the GUI -------------------------------- *)
\* what a frame of the GUI and the threads it starts leave alone: the test
engineVars == <<orchVars, loaderVars, calVars, pingVars, bandwidth_pc, now,
                config, limits, skew, std, server, cancel, callback_pc,
                delivered, histVars, uploadVars, counterVars>>

\* the frame that keeps the record of a server that failed to start
ServerFrame_keep_record(p) ==
    /\ gui_pc = "running"
    /\ \E clicked \in BOOLEAN : \E ok \in BOOLEAN :
          CASE server_state[p] \in {"Stopped", "StoppedError"} ->
                 IF clicked /\ ok
                 THEN /\ server_record' = [server_record EXCEPT ![p] = <<[stop |-> "Some"]>>]
                      /\ server_state' = [server_state EXCEPT ![p] = "Starting"]
                      /\ serve' = [serve EXCEPT ![p] =
                                     [thread |-> "starting", started |-> "empty",
                                      done |-> "empty", stop |-> "open"]]
                      /\ UNCHANGED gui_pc
                 ELSE UNCHANGED <<gui_pc, server_state, server_record, serve>>
            [] server_state[p] = "Running" ->
                 IF serve[p].thread = "ended"
                 THEN gui_pc' = "panicked" /\ UNCHANGED <<server_state, server_record, serve>>
                 ELSE IF clicked
                 THEN /\ server_record' = [server_record EXCEPT ![p] = <<[stop |-> "None"]>>]
                      /\ serve' = [serve EXCEPT ![p].stop = "signalled"]
                      /\ server_state' = [server_state EXCEPT ![p] = "Stopping"]
                      /\ UNCHANGED gui_pc
                 ELSE UNCHANGED <<gui_pc, server_state, server_record, serve>>
            [] server_state[p] = "Starting" ->
                 IF serve[p].started = "Err"
                 THEN /\ serve' = [serve EXCEPT ![p].started = "taken"]
                      /\ server_state' = [server_state EXCEPT ![p] = "StoppedError"]
                      /\ UNCHANGED <<gui_pc, server_record>>
                 ELSE IF serve[p].started = "Ok"
                 THEN /\ serve' = [serve EXCEPT ![p].started = "taken"]
                      /\ server_state' = [server_state EXCEPT ![p] = "Running"]
                      /\ UNCHANGED <<gui_pc, server_record>>
                 ELSE UNCHANGED <<gui_pc, server_state, server_record, serve>>
            [] server_state[p] = "Stopping" ->
                 IF serve[p].done = "sent"
                 THEN /\ serve' = [serve EXCEPT ![p].done = "taken"]
                      /\ server_state' = [server_state EXCEPT ![p] = "Stopped"]
                      /\ server_record' = [server_record EXCEPT ![p] = <<>>]
                      /\ UNCHANGED gui_pc
                 ELSE UNCHANGED <<gui_pc, server_state, server_record, serve>>
    /\ UNCHANGED <<latency_state, latency_record, monitor, engineVars>>

\* Tester::server and Tester::remote: one frame of the panel, with or without
\* a click on its button; ok says whether serve_until returned a stop handle.
\* "StoppedError" is Stopped(Some(error)).
ServerFrame(p) ==
    /\ gui_pc = "running"
    /\ \E clicked \in BOOLEAN : \E ok \in BOOLEAN :
          CASE server_state[p] \in {"Stopped", "StoppedError"} ->
                 IF clicked /\ ok
                 THEN /\ server_record' = [server_record EXCEPT ![p] = <<[stop |-> "Some"]>>]
                      /\ server_state' = [server_state EXCEPT ![p] = "Starting"]
                      /\ serve' = [serve EXCEPT ![p] =
                                     [thread |-> "starting", started |-> "empty",
                                      done |-> "empty", stop |-> "open"]]
                      /\ UNCHANGED gui_pc
                 ELSE UNCHANGED <<gui_pc, server_state, server_record, serve>>
            [] server_state[p] = "Running" ->
                 \* rx.try_recv() returns Disconnected once the thread is gone
                 IF serve[p].thread = "ended"
                 THEN gui_pc' = "panicked" /\ UNCHANGED <<server_state, server_record, serve>>
                 ELSE IF clicked
                 THEN /\ server_record' = [server_record EXCEPT ![p] = <<[stop |-> "None"]>>]
                      /\ serve' = [serve EXCEPT ![p].stop = "signalled"]
                      /\ server_state' = [server_state EXCEPT ![p] = "Stopping"]
                      /\ UNCHANGED gui_pc
                 ELSE UNCHANGED <<gui_pc, server_state, server_record, serve>>
            [] server_state[p] = "Starting" ->
                 IF serve[p].started = "Err"
                 THEN /\ serve' = [serve EXCEPT ![p].started = "taken"]
                      /\ server_state' = [server_state EXCEPT ![p] = "StoppedError"]
                      /\ server_record' = [server_record EXCEPT ![p] = <<>>]
                      /\ UNCHANGED gui_pc
                 ELSE IF serve[p].started = "Ok"
                 THEN /\ serve' = [serve EXCEPT ![p].started = "taken"]
                      /\ server_state' = [server_state EXCEPT ![p] = "Running"]
                      /\ UNCHANGED <<gui_pc, server_record>>
                 ELSE UNCHANGED <<gui_pc, server_state, server_record, serve>>
            [] server_state[p] = "Stopping" ->
                 IF serve[p].done = "sent"
                 THEN /\ serve' = [serve EXCEPT ![p].done = "taken"]
                      /\ server_state' = [server_state EXCEPT ![p] = "Stopped"]
                      /\ server_record' = [server_record EXCEPT ![p] = <<>>]
                      /\ UNCHANGED gui_pc
                 ELSE UNCHANGED <<gui_pc, server_state, server_record, serve>>
    /\ UNCHANGED <<latency_state, latency_record, monitor, engineVars>>

\* the thread of serve_until calls the `started` closure with its result; a
\* server that could not start ends
ServeStarted(p) ==
    /\ serve[p].thread = "starting"
    /\ \E res \in {"Ok", "Err"} :
          serve' = [serve EXCEPT ![p].started = res,
                                 ![p].thread = IF res = "Ok" THEN "running" ELSE "ended"]
    /\ UNCHANGED <<gui_pc, server_state, server_record>>
    /\ UNCHANGED <<latency_state, latency_record, monitor, engineVars>>

\* the thread of serve_until has received the stop signal: it calls the `done`
\* closure and ends
ServeStopped(p) ==
    /\ serve[p].thread = "running"
    /\ serve[p].stop = "signalled"
    /\ serve' = [serve EXCEPT ![p].done = "sent", ![p].thread = "ended"]
    /\ UNCHANGED <<gui_pc, server_state, server_record>>
    /\ UNCHANGED <<latency_state, latency_record, monitor, engineVars>>

\* the thread of serve_until ends without having been told to stop, which
\* drops the closures it was given
ServeGone(p) ==
    /\ serve[p].thread = "running"
    /\ serve[p].stop = "open"
    /\ serve' = [serve EXCEPT ![p].thread = "ended"]
    /\ UNCHANGED <<gui_pc, server_state, server_record>>
    /\ UNCHANGED <<latency_state, latency_record, monitor, engineVars>>

\* the monitor frame that leaves the abort handle in the record when it
\* sends on it
MonitorFrame_abort_kept ==
    /\ gui_pc = "running"
    /\ \E start \in BOOLEAN : \E stop \in BOOLEAN :
          IF latency_state = "Stopped"
          THEN IF start
               THEN /\ latency_record' = <<[abort |-> "Some"]>>
                    /\ latency_state' = "Running"
                    /\ monitor' = [thread |-> "running", started |-> "empty",
                                   done |-> "empty", stop |-> "open"]
                    /\ UNCHANGED gui_pc
               ELSE UNCHANGED <<gui_pc, latency_state, latency_record, monitor>>
          ELSE LET send == latency_state = "Running" /\ stop IN
               IF send /\ monitor.thread = "ended"
               THEN /\ gui_pc' = "panicked"
                    /\ latency_record' = <<[abort |-> "None"]>>
                    /\ UNCHANGED <<latency_state, monitor>>
               ELSE IF monitor.done = "sent"
               THEN /\ monitor' = [monitor EXCEPT !.done = "taken",
                                      !.stop = IF send THEN "signalled" ELSE @]
                    /\ latency_record' = <<>>
                    /\ latency_state' = "Stopped"
                    /\ UNCHANGED gui_pc
               ELSE IF send
               THEN /\ monitor' = [monitor EXCEPT !.stop = "signalled"]
                    /\ latency_state' = "Stopping"
                    /\ UNCHANGED <<gui_pc, latency_record>>
               ELSE UNCHANGED <<gui_pc, latency_state, latency_record, monitor>>
    /\ UNCHANGED <<server_state, server_record, serve, engineVars>>

\* Tester::monitor with Tester::start_monitor: one frame of the panel, with or
\* without a click on Start and on Stop.  `running` is taken at the top of
\* the frame; a frame of a running monitor first handles the Stop click
\* (abort.send(()).unwrap() panics when the thread has dropped its receiver),
\* then polls done.
MonitorFrame ==
    /\ gui_pc = "running"
    /\ \E start \in BOOLEAN : \E stop \in BOOLEAN :
          IF latency_state = "Stopped"
          THEN IF start
               THEN /\ latency_record' = <<[abort |-> "Some"]>>
                    /\ latency_state' = "Running"
                    /\ monitor' = [thread |-> "running", started |-> "empty",
                                   done |-> "empty", stop |-> "open"]
                    /\ UNCHANGED gui_pc
               ELSE UNCHANGED <<gui_pc, latency_state, latency_record, monitor>>
          ELSE LET send == latency_state = "Running" /\ stop IN
               IF send /\ monitor.thread = "ended"
               THEN /\ gui_pc' = "panicked"
                    /\ latency_record' = <<[abort |-> "None"]>>
                    /\ UNCHANGED <<latency_state, monitor>>
               ELSE IF monitor.done = "sent"
               THEN /\ monitor' = [monitor EXCEPT !.done = "taken",
                                      !.stop = IF send THEN "signalled" ELSE @]
                    /\ latency_record' = <<>>
                    /\ latency_state' = "Stopped"
                    /\ UNCHANGED gui_pc
               ELSE IF send
               THEN /\ monitor' = [monitor EXCEPT !.stop = "signalled"]
                    /\ latency_record' = <<[abort |-> "None"]>>
                    /\ latency_state' = "Stopping"
                    /\ UNCHANGED gui_pc
               ELSE UNCHANGED <<gui_pc, latency_state, latency_record, monitor>>
    /\ UNCHANGED <<server_state, server_record, serve, engineVars>>

\* the thread of latency::test_callback ends, of itself or on the abort
\* signal: its receiver of the abort signal is dropped and the `done` closure
\* sends the result
MonitorDone ==
    /\ monitor.thread = "running"
    /\ monitor' = [monitor EXCEPT !.done = "sent", !.thread = "ended"]
    /\ UNCHANGED <<gui_pc, latency_state, latency_record>>
    /\ UNCHANGED <<server_state, server_record, serve, engineVars>>

(* --------------------------- specifications ----------------------------- *)
\* test_async, measure_latency and the tasks every run has
Run ==
    \/ Connect
    \/ ConnectFail
    \/ Hello
    \/ HelloMismatch
    \/ NewClientReply
    \/ PingMeasureSend
    \/ PingMeasureRecv
    \/ PingMeasureDeadline
    \/ MeasureLatency
    \/ SpawnLoaders
    \/ GetMeasurements
    \/ SendGrace1
    \/ GraceElapsed
    \/ SendEndPingRecv
    \/ PingSendBreak
    \/ PingRecvBreak
    \/ JoinPingSend
    \/ JoinPingRecv
    \/ MeasurementsDone
    \/ JoinBandwidth
    \/ Assemble

\* the load phases: loaders, completion semaphores and Measure events
Load ==
    \/ AcquireDownload
    \/ AcquireUpload
    \/ AcquireBothDownload
    \/ AcquireBothUpload
    \/ \E k \in Kinds : \E i \in Ordinals :
          \/ LoaderSetup(k, i)
          \/ LoaderObserve(k, i)
          \/ UploadSendLoad(k, i)
          \/ UploadStop(k, i)
          \/ DownloadSendLoad(k, i)
          \/ DownloadDone(k, i)
          \/ DownloadEos(k, i)
          \/ DownloadFinish(k, i)
          \/ Measure(k, i)
          \/ MeasureStreamDone(k, i)

\* the pings of the main test and the clock
Pings ==
    \/ PingSend
    \/ PingRecv
    \/ PingRecvStray
    \/ Tick

\* the payload reads and the counter task's samples of the download loaders
Counters ==
    \E k \in DownKinds : \E i \in Ordinals :
        \/ DownloadRead(k, i)
        \/ DownloadSample(k, i)

\* the loaders of a download-only test
DownloadOnly ==
    \/ AcquireDownload
    \/ \E i \in Ordinals :
          \/ LoaderSetup("download", i)
          \/ LoaderObserve("download", i)
          \/ DownloadSendLoad("download", i)
          \/ DownloadDone("download", i)
          \/ DownloadEos("download", i)
          \/ DownloadFinish("download", i)

\* the faults of the server, of the control connection and of the loaders'
\* connections
Faults ==
    \/ ControlLost
    \/ ServerStall
    \/ \E k \in Kinds : \E i \in Ordinals :
          \/ LoaderSetupFail(k, i)
          \/ DownloadReadFail(k, i)

\* what test_async does about a task that panicked or a send that failed
Recovery ==
    \/ SendDoneFail
    \/ JoinBandwidthFail

\* datagrams that are no Ping, and what test_async does about them
Garbage ==
    \/ PingRecvGarbage
    \/ PingMeasureRecvGarbage
    \/ JoinPingRecvFail

\* the caller of test_callback and its thread
Callback ==
    \/ CancelSend
    \/ CancelDrop
    \/ DeliverNone
    \/ DeliverResult
    \/ CancelDroppedPanic
    \/ RuntimeDrop

\* the reads of the watch channel that find another phase than the awaited
Watch ==
    \/ PingRecvRead
    \/ \E i \in Ordinals : LoaderRead("download", i)

\* the loaders of a download-only test with the reading task and the counter
\* task of every loader running side by side
DownloadTasks ==
    \/ AcquireDownload
    \/ \E i \in Ordinals :
          \/ LoaderSetup("download", i)
          \/ LoaderObserve("download", i)
          \/ DownloadSendLoad("download", i)
          \/ DownloadRead("download", i)
          \/ DownloadDone("download", i)
          \/ DownloadEos("download", i)
          \/ CounterLoad("download", i)
          \/ CounterPush("download", i)
          \/ DownloadJoin("download", i)

\* the loaders of an upload-only test with their payload writes
UploadOnly ==
    \/ AcquireUpload
    \/ \E i \in Ordinals :
          \/ LoaderSetup("upload", i)
          \/ LoaderObserve("upload", i)
          \/ UploadSendLoad("upload", i)
          \/ UploadWrite("upload", i)
          \/ UploadYield("upload", i)
          \/ UploadStop("upload", i)
          \/ MeasureStreamDone("upload", i)

\* the whole test for every configuration, the clock standing still
Next == Run \/ Load

Spec == Init /\ [][Next]_vars

\* a test with no load phase enabled, with its pings and a running clock
InitPing ==
    /\ config = [download |-> FALSE, upload |-> FALSE, both |-> FALSE, streams |-> 1]
    /\ limits = [pings |-> MaxPings, recv |-> MaxRecv, samples |-> MaxSamples,
                 measures |-> 0, reads |-> 0, ticks |-> 0,
                 faults |-> 0, garbage |-> MaxGarbage,
                 writes |-> 0, load_duration |-> 0]
    /\ skew \in {0, MaxSkew}
    /\ std \in StdImpls
    /\ cancel = "none"
    /\ callback_pc = "none"
    /\ InitCommon

NextPing == Run \/ Pings \/ Garbage

SpecPing == InitPing /\ [][NextPing]_vars

\* a download-only test whose loaders read payload and sample their counters
InitCounters ==
    /\ config \in {c \in Configs : c.download /\ ~c.upload /\ ~c.both}
    /\ limits = [pings |-> 0, recv |-> 0, samples |-> 1,
                 measures |-> 0, reads |-> MaxReads, ticks |-> MaxTicks,
                 faults |-> 0, garbage |-> 0,
                 writes |-> 0, load_duration |-> 0]
    /\ skew = 0
    /\ std = "early_return"
    /\ cancel = "none"
    /\ callback_pc = "none"
    /\ InitCommon

NextCounters == Run \/ DownloadOnly \/ Counters \/ Tick

SpecCounters == InitCounters /\ [][NextCounters]_vars

\* the whole test for every configuration with at most MaxFaults faults of the
\* environment.  The tokio scheduler polls every task that is woken and the
\* server, until it is lost or stalls, answers: no step of the program or of
\* a responsive server stays enabled for ever without being taken.
InitFault ==
    /\ config \in Configs
    /\ limits = [pings |-> 0, recv |-> 0, samples |-> 1,
                 measures |-> MaxMeasures, reads |-> 0, ticks |-> 0,
                 faults |-> MaxFaults, garbage |-> 0,
                 writes |-> 0, load_duration |-> 0]
    /\ skew = 0
    /\ std = "early_return"
    /\ cancel = "none"
    /\ callback_pc = "none"
    /\ InitCommon

Progress == Run \/ Load \/ Recovery

NextFault == Progress \/ Faults

SpecFault == InitFault /\ [][NextFault]_vars /\ WF_vars(Progress)

\* a download-only test started by test_callback, whose caller may send the
\* cancel signal or drop the handle at any time
InitCallback ==
    /\ config \in {c \in Configs : c.download /\ ~c.upload /\ ~c.both}
    /\ limits = [pings |-> 0, recv |-> 0, samples |-> 1,
                 measures |-> 0, reads |-> 0, ticks |-> 0,
                 faults |-> 0, garbage |-> 0,
                 writes |-> 0, load_duration |-> 0]
    /\ skew = 0
    /\ std = "early_return"
    /\ cancel = "held"
    /\ callback_pc = "select"
    /\ InitCommon

NextCallback == Run \/ DownloadOnly \/ Callback

SpecCallback == InitCallback /\ [][NextCallback]_vars

\* a download-only test in which every read of the watch channel is a step
InitWatch ==
    /\ config \in {c \in Configs : c.download /\ ~c.upload /\ ~c.both}
    /\ limits = [pings |-> 0, recv |-> 0, samples |-> 1,
                 measures |-> 0, reads |-> 0, ticks |-> 0,
                 faults |-> 0, garbage |-> 0,
                 writes |-> 0, load_duration |-> 0]
    /\ skew = 0
    /\ std = "early_return"
    /\ cancel = "none"
    /\ callback_pc = "none"
    /\ InitCommon

NextWatch == Run \/ DownloadOnly \/ Watch

SpecWatch == InitWatch /\ [][NextWatch]_vars

\* a test with no load phase and its pings, the clocks in step.  ping_send's
\* interval ticks and ping_recv's select! is polled when the phase changes:
\* neither break stays enabled for ever without being taken.
InitPingFair ==
    /\ config = [download |-> FALSE, upload |-> FALSE, both |-> FALSE, streams |-> 1]
    /\ limits = [pings |-> MaxPings, recv |-> MaxRecv, samples |-> 1,
                 measures |-> 0, reads |-> 0, ticks |-> 0,
                 faults |-> 0, garbage |-> 0,
                 writes |-> 0, load_duration |-> 0]
    /\ skew = 0
    /\ std = "early_return"
    /\ cancel = "none"
    /\ callback_pc = "none"
    /\ InitCommon

SpecPingFair ==
    InitPingFair /\ [][Run \/ Pings]_vars
        /\ WF_vars(PingSendBreak) /\ WF_vars(PingRecvBreak)

\* the calibration alone: a test with no load phase and no main ping
InitCalibration ==
    /\ config = [download |-> FALSE, upload |-> FALSE, both |-> FALSE, streams |-> 1]
    /\ limits = [pings |-> 0, recv |-> 0, samples |-> MaxSamples,
                 measures |-> 0, reads |-> 0, ticks |-> 0,
                 faults |-> 0, garbage |-> 0,
                 writes |-> 0, load_duration |-> 0]
    /\ skew \in {0, MaxSkew}
    /\ std \in StdImpls
    /\ cancel = "none"
    /\ callback_pc = "none"
    /\ InitCommon

NextCalibration == Run \/ Tick

SpecCalibration == InitCalibration /\ [][NextCalibration]_vars

\* the calibration with the clocks in step.  ping_measure_send's interval
\* ticks, ping_measure_recv's end timer fires and join! returns once both
\* tasks have ended: none of the three stays enabled for ever without being
\* taken.  No datagram has to arrive.
InitCalibrationFair ==
    /\ config = [download |-> FALSE, upload |-> FALSE, both |-> FALSE, streams |-> 1]
    /\ limits = [pings |-> 0, recv |-> 0, samples |-> MaxSamples,
                 measures |-> 0, reads |-> 0, ticks |-> 0,
                 faults |-> 0, garbage |-> 0,
                 writes |-> 0, load_duration |-> 0]
    /\ skew = 0
    /\ std = "early_return"
    /\ cancel = "none"
    /\ callback_pc = "none"
    /\ InitCommon

SpecCalibrationFair ==
    InitCalibrationFair /\ [][NextCalibration]_vars
        /\ WF_vars(PingMeasureSend) /\ WF_vars(PingMeasureDeadline)
        /\ WF_vars(MeasureLatency)

\* an upload-only test with a running clock, a load_duration of MaxLoad ticks,
\* the payload writes of its loaders and the main ping sender
InitUpload ==
    /\ config \in {c \in Configs : c.upload /\ ~c.download /\ ~c.both}
    /\ limits = [pings |-> 1, recv |-> 0, samples |-> 1,
                 measures |-> 0, reads |-> 0, ticks |-> 0,
                 faults |-> 0, garbage |-> 0,
                 writes |-> MaxWrites, load_duration |-> MaxLoad]
    /\ skew = 0
    /\ std = "early_return"
    /\ cancel = "none"
    /\ callback_pc = "none"
    /\ InitCommon

NextUpload == Run \/ UploadOnly \/ PingSend \/ Tick

SpecUpload == InitUpload /\ [][NextUpload]_vars

\* a download-only test in which the reading task and the counter task of a
\* loader, two tasks of the multi-threaded Runtime, interleave statement by
\* statement
InitCounterTask ==
    /\ config \in {c \in Configs : c.download /\ ~c.upload /\ ~c.both}
    /\ limits = [pings |-> 0, recv |-> 0, samples |-> 1,
                 measures |-> 0, reads |-> MaxReads, ticks |-> MaxTicks,
                 faults |-> 0, garbage |-> 0,
                 writes |-> 0, load_duration |-> 0]
    /\ skew = 0
    /\ std = "early_return"
    /\ cancel = "none"
    /\ callback_pc = "none"
    /\ InitCommon

NextCounterTask == Run \/ DownloadTasks

SpecCounterTask == InitCounterTask /\ [][NextCounterTask]_vars

\* the whole test for every configuration with a responsive server and no
\* fault.  The tokio scheduler polls every task that is woken, every sleep
\* ends and the server answers: the run does not stop while a step of the
\* program or of the server is enabled.
SpecLive == Init /\ [][Next]_vars /\ WF_vars(Next)

\* the phase sender dropped under the loaders: the early error return of
\* test_async and what wait_for_state does about it
Dropped ==
    \/ GetMeasurementsFail
    \/ \E k \in Kinds : \E i \in Ordinals : LoaderClosed(k, i)

\* the whole test for every configuration, in which the send of
\* GetMeasurements may fail.  The tokio scheduler polls every task that is
\* woken, and dropping the sender wakes every receiver.
InitDropped ==
    /\ config \in Configs
    /\ limits = [pings |-> 0, recv |-> 0, samples |-> 1,
                 measures |-> 0, reads |-> 0, ticks |-> 0,
                 faults |-> MaxFaults, garbage |-> 0,
                 writes |-> 0, load_duration |-> 0]
    /\ skew = 0
    /\ std = "early_return"
    /\ cancel = "none"
    /\ callback_pc = "none"
    /\ InitCommon

\* the load phases of a test whose server sends no Measure event
LoadQuiet ==
    \/ AcquireDownload
    \/ AcquireUpload
    \/ AcquireBothDownload
    \/ AcquireBothUpload
    \/ \E k \in Kinds : \E i \in Ordinals :
          \/ LoaderSetup(k, i)
          \/ LoaderObserve(k, i)
          \/ UploadSendLoad(k, i)
          \/ UploadStop(k, i)
          \/ DownloadSendLoad(k, i)
          \/ DownloadDone(k, i)
          \/ DownloadEos(k, i)
          \/ DownloadFinish(k, i)
          \/ MeasureStreamDone(k, i)

\* every step of such a test
NextDropped == Run \/ LoadQuiet \/ Dropped

SpecDropped == InitDropped /\ [][NextDropped]_vars /\ WF_vars(NextDropped)

\* the GUI: frames of the server, remote and monitor panels in any order,
\* with any clicks, and the threads they start; no test is run
InitGui ==
    /\ config = [download |-> FALSE, upload |-> FALSE, both |-> FALSE, streams |-> 1]
    /\ limits = [pings |-> 0, recv |-> 0, samples |-> 1,
                 measures |-> 0, reads |-> 0, ticks |-> 0,
                 faults |-> 0, garbage |-> 0,
                 writes |-> 0, load_duration |-> 0]
    /\ skew = 0
    /\ std = "early_return"
    /\ cancel = "none"
    /\ callback_pc = "none"
    /\ InitCommon

NextGui ==
    \/ \E p \in Panels :
          \/ ServerFrame(p)
          \/ ServeStarted(p)
          \/ ServeStopped(p)
          \/ ServeGone(p)
    \/ MonitorFrame
    \/ MonitorDone

SpecGui == InitGui /\ [][NextGui]_vars

(* ------------------------------- claims --------------------------------- *)
\* x occurs in the sequence s
In(x, s) == \E i \in 1..Len(s) : s[i] = x

\* s is a prefix of t
IsPrefix(s, t) == Len(s) <= Len(t) /\ \A i \in 1..Len(s) : s[i] = t[i]

\* C1: every phase the orchestrator sends is strictly greater, in the declared
\* order of TestState, than the one sent before it; the phase never regresses.
C1_PhaseStrictlyIncreasing ==
    \A i \in 1..(Len(emitted) - 1) : emitted[i] < emitted[i + 1]

\* the phase sequence of a completed run for a configuration
CanonicalSequence(c) ==
    <<Setup, Grace1>>
    \o (IF c.download THEN <<LoadFromServer, Grace2>> ELSE <<>>)
    \o (IF c.upload THEN <<LoadFromClient, Grace3>> ELSE <<>>)
    \o (IF c.both THEN <<LoadFromBoth, Grace4>> ELSE <<>>)
    \o <<End, EndPingRecv>>

\* C2: the phases emitted are at every moment a prefix of Setup, Grace1,
\* (LoadFromServer, Grace2 iff download), (LoadFromClient, Grace3 iff upload),
\* (LoadFromBoth, Grace4 iff both), End, EndPingRecv, and they are the whole
\* of it once the run has completed: no phase of a disabled load is emitted
\* and EndPingRecv is the last value.
C2_PhaseSequence ==
    /\ IsPrefix(emitted, CanonicalSequence(config))
    /\ pc \in {"join_ping_send", "join_ping_recv", "join_bandwidth",
               "join_loaders", "done"}
          => emitted = CanonicalSequence(config)

\* a completed run with download and both enabled and upload disabled
C2_Witness ==
    /\ pc = "done"
    /\ config.download /\ ~config.upload /\ config.both
    /\ config.streams = 2

\* the MeasureStreamDone events received for a group
DoneEvents(group) == {s \in stream_done : s[1] = group}

\* every download loader of a kind has read end-of-stream
AllAtEos(k) == \A i \in Ordinals : loader[k][i] \in {"eos", "returned"}

\* C3: Grace2 is emitted only after all N download loaders reached
\* end-of-stream, Grace3 only after N MeasureStreamDone events of group 0,
\* Grace4 only after the N bidirectional-download loaders reached
\* end-of-stream and N MeasureStreamDone events of group 1.
C3_CompletionQuorum ==
    /\ In(Grace2, emitted) => AllAtEos("download")
    /\ In(Grace3, emitted) => Cardinality(DoneEvents(0)) = config.streams
    /\ In(Grace4, emitted) =>
          /\ AllAtEos("both_download")
          /\ Cardinality(DoneEvents(1)) = config.streams

\* all three load phases were left with two streams per group
C3_Witness ==
    /\ In(Grace2, emitted) /\ In(Grace3, emitted) /\ In(Grace4, emitted)
    /\ config.streams = 2

\* the (download, both) flags of the groups of the enabled phases, in the
\* order download, bidirectional-download, upload, bidirectional-upload
ExpectedGroups(c) ==
    (IF c.download THEN <<<<TRUE, FALSE>>>> ELSE <<>>)
    \o (IF c.both THEN <<<<TRUE, TRUE>>>> ELSE <<>>)
    \o (IF c.upload THEN <<<<FALSE, FALSE>>>> ELSE <<>>)
    \o (IF c.both THEN <<<<FALSE, TRUE>>>> ELSE <<>>)

\* the (download, both) flags of the groups of a RawResult
GroupFlags(r) ==
    [g \in 1..Len(r.stream_groups) |->
        <<r.stream_groups[g].download, r.stream_groups[g].both>>]

\* C4: the stream groups of the returned RawResult are exactly the groups of
\* the enabled phases, in the order download, bidirectional-download, upload,
\* bidirectional-upload.
C4_GroupsOfEnabledPhases ==
    result # <<>> => GroupFlags(result[1]) = ExpectedGroups(config)

\* the loader kind a group of the result was assembled from
KindOfGroup(g) ==
    IF g.download THEN (IF g.both THEN "both_download" ELSE "download")
    ELSE (IF g.both THEN "both_upload" ELSE "upload")

\* the Measure events received for TestStream (group, id)
EventsOf(group, id) ==
    {j \in 1..Len(bandwidth) :
        bandwidth[j].stream.group = group /\ bandwidth[j].stream.id = id}

\* C5: every stream group of the returned RawResult has exactly config.streams
\* RawStreams, the one at ordinal i holding the samples of stream i: those of
\* download loader i, or one point per Measure event received for upload
\* stream i, none when no event was received.
C5_StreamsPerGroup ==
    result # <<>> =>
        \A g \in 1..Len(result[1].stream_groups) :
            LET group == result[1].stream_groups[g] IN
            /\ Len(group.streams) = config.streams
            /\ \A i \in 1..Len(group.streams) :
                  IF group.download
                  THEN /\ Len(group.streams[i]) = Len(measures[KindOfGroup(group)][i - 1])
                       /\ Len(group.streams[i]) >= 1
                  ELSE Len(group.streams[i])
                          = Cardinality(EventsOf(GroupOf(KindOfGroup(group)), i - 1))

\* a result with two streams per group whose upload group has one stream with
\* a Measure event and one without
C5_Witness ==
    /\ result # <<>>
    /\ config.streams = 2
    /\ \E g \in 1..Len(result[1].stream_groups) :
          LET group == result[1].stream_groups[g] IN
          /\ ~group.download
          /\ \E i, j \in 1..Len(group.streams) :
                Len(group.streams[i]) = 0 /\ Len(group.streams[j]) = 1

\* C10: when calibration matches no ping, measure_latency fails and
\* test_async returns the error; in a run that failed so no auxiliary
\* connection was opened (no loader task exists), no load request was sent,
\* no phase after Setup was emitted and no result is returned.
C10_CalibrationFailure ==
    /\ [][(pc = "measure_latency" /\ pc' # pc
           /\ CalibrationPings(cal_sent, cal_recv, std) = <<>>)
          => (pc' = "error" /\ error' = "LatencyUnmeasurable")]_vars
    /\ [](error = "LatencyUnmeasurable" =>
            /\ pc = "error"
            /\ \A k \in Kinds : \A i \in Ordinals : loader[k][i] = "none"
            /\ \A i \in 1..Len(emitted) : emitted[i] = Setup
            /\ ~In("GetMeasurements", control)
            /\ result = <<>>)

\* test_async returned the calibration error
C10_Witness == pc = "error" /\ error = "LatencyUnmeasurable"

\* the pings of the returned RawResult
ResultPings == result[1].pings

\* C6: for every RawPing of the returned RawResult whose latency is present,
\* 0 <= up <= total, so that down = total - up never underflows.
C6_UpWithinTotal ==
    result # <<>> =>
        \A i \in 1..Len(ResultPings) :
            ResultPings[i].latency # <<>> =>
                /\ 0 <= ResultPings[i].latency[1].up
                /\ ResultPings[i].latency[1].up <= ResultPings[i].latency[1].total

\* the positions in the receiver's storage of the datagrams carrying an index
Received(index) == {j \in 1..Len(storage) : storage[j].index = index}

\* C7: the pings list has exactly one RawPing per ping sent, at position i
\* for index i with the send time recorded for index i; its latency is present
\* iff at least one received datagram carried index i.  A datagram whose index
\* was never sent adds no entry.
C7_OnePingPerSent ==
    result # <<>> =>
        /\ Len(ResultPings) = Len(pings_sent)
        /\ \A i \in 1..Len(ResultPings) :
              /\ ResultPings[i].index = i - 1
              /\ ResultPings[i].sent = pings_sent[i]
              /\ (ResultPings[i].latency # <<>>) <=> (Received(i - 1) # {})

\* a result with an answered ping, a lost ping and a datagram of an index
\* that was never sent
C7_Witness ==
    /\ result # <<>>
    /\ Len(pings_sent) = 2
    /\ \E i, j \in 1..2 :
          ResultPings[i].latency # <<>> /\ ResultPings[j].latency = <<>>
    /\ \E j \in 1..Len(storage) : storage[j].index >= Len(pings_sent)

\* C8: when several received datagrams carry the same ping index, the
\* RawLatency of that index is computed from the one received last.
C8_LastDuplicateWins ==
    result # <<>> =>
        \A i \in 1..Len(ResultPings) :
            ResultPings[i].latency # <<>> =>
                LET last == CHOOSE j \in Received(i - 1) :
                               \A h \in Received(i - 1) : h <= j
                IN  ResultPings[i].latency[1]
                        = RawLatency(storage[last], pings_sent[i], server_time_offset)

\* C9: the total and the up of a RawPing are both taken from one and the same
\* received record of its index, whatever the number and order of duplicates.
C9_OneRecordPerPing ==
    result # <<>> =>
        \A i \in 1..Len(ResultPings) :
            ResultPings[i].latency # <<>> =>
                \E j \in Received(i - 1) :
                    ResultPings[i].latency[1]
                        = RawLatency(storage[j], pings_sent[i], server_time_offset)

\* a result for a ping answered by two datagrams that differ in both total and up
C9_Witness ==
    /\ result # <<>>
    /\ \E i \in 1..Len(ResultPings) : \E j, h \in Received(i - 1) :
          LET a == RawLatency(storage[j], pings_sent[i], server_time_offset)
              b == RawLatency(storage[h], pings_sent[i], server_time_offset)
          IN  a.total # b.total /\ a.up # b.up

\* C11: test_async returns a RawResult only after MeasurementsDone has been
\* received on the control connection; once the control connection has closed
\* or failed before MeasurementsDone, no RawResult is ever returned.
C11_ResultAfterMeasurementsDone ==
    /\ result # <<>> => bandwidth_pc = "done"
    /\ server = "lost" => result = <<>>

\* the control connection was lost and test_async returned the JoinError of
\* the bandwidth task
C11_Witness ==
    /\ server = "lost"
    /\ bandwidth_pc = "panicked"
    /\ pc = "error" /\ error = "JoinError"
    /\ result = <<>>

\* C12: when the control connection is lost during a load phase (after
\* GetMeasurements, before MeasurementsDone) the test eventually terminates
\* with an error; it does not wait for ever for a completion quorum.
C12_ControlLossTerminates == (server = "lost") ~> (pc = "error")

\* C13: every failure of a child task (auxiliary connect, Hello or Associate
\* failure, failed read in a loader) reaches the orchestrator: the test
\* eventually terminates with an error.
C13_ChildFailureSurfaces ==
    (\E k \in Kinds : \E i \in Ordinals : loader[k][i] = "panicked")
        ~> (pc \in {"error", "panicked"})

\* C14: when the done callback is called after the cancel signal was sent to
\* a running test that has reached Grace2, the phase End was sent, Done was
\* sent on the control connection and the callback gets a partial or an error
\* result, not None.
C14_CancelShortCircuits ==
    [][(delivered = <<>> /\ delivered' # <<>>
          /\ cancel = "sent_early" /\ In(Grace2, emitted))
       => (/\ delivered'[1] \in {"Ok", "Err"}
           /\ In(End, emitted)
           /\ In("Done", control))]_vars

\* C15 as stated: the done callback gets None if and only if the cancel signal
\* was sent before the test task finished; a cancel sent after the test task
\* finished never makes it None.
C15_NoneIffCancelFirst ==
    delivered # <<>> => (delivered[1] = "None" <=> cancel = "sent_early")

\* C15: the done callback gets None only if the cancel signal had been sent,
\* Some(Ok(result)) only if the test task had returned that result and
\* Some(Err(message)) only if it had returned an error or panicked.
C15_DeliveredValue ==
    \A j \in 1..Len(delivered) :
        /\ delivered[j] = "None" => cancel \in {"sent_early", "sent_late"}
        /\ delivered[j] = "Ok" => (pc = "done" /\ result # <<>>)
        /\ delivered[j] = "Err" => pc \in {"error", "panicked"}

\* the callback got None although the test task had finished before the
\* cancel signal was sent
C15_Witness ==
    /\ delivered = <<"None">>
    /\ cancel = "sent_late"
    /\ Finished

\* C16: when the server stops responding the test still terminates, failing
\* on its test-wide deadline instead of waiting for ever.
C16_TestWideDeadline == (server = "stalled") ~> (pc = "error")

\* C17: a mismatched Hello is fatal: NewClient is never sent and the run has
\* no RawResult.
C17_HelloMismatchFatal ==
    error = "MismatchedHello" =>
        /\ pc = "panicked"
        /\ ~In("NewClient", control)
        /\ result = <<>>

\* hello() has sent the client's Hello and panicked on the server's
C17_Witness ==
    /\ error = "MismatchedHello"
    /\ control = <<"Hello">>
    /\ pc = "panicked"

\* C18: when the reply to NewClient is NewClient(None) or any other message,
\* test_async has returned an error, and it did so before any calibration
\* ping, any phase, any loader or ping task and before GetMeasurements.
C18_RejectionBeforeSideEffects ==
    error \in {"ServerRejected", "UnexpectedMessage"} =>
        /\ pc = "error"
        /\ cal_sent = <<>> /\ cal_recv = <<>> /\ ~cal_end /\ latency = -1
        /\ state = -1 /\ emitted = <<>>
        /\ \A k \in Kinds : \A i \in Ordinals : loader[k][i] = "none"
        /\ bandwidth_pc = "none" /\ ping_send_pc = "none" /\ ping_recv_pc = "none"
        /\ pings_sent = <<>>
        /\ ~In("GetMeasurements", control)
        /\ result = <<>>

\* the server answered NewClient with NewClient(None) and test_async returned
C18_Witness ==
    /\ error = "ServerRejected"
    /\ pc = "error"
    /\ control = <<"Hello", "NewClient">>

\* C19: a received datagram that does not deserialize to a Ping is dropped:
\* the receiver keeps running and the test does not fail on it.
C19_GarbageTolerated ==
    left.garbage < limits.garbage =>
        /\ ping_recv_pc # "panicked"
        /\ pc \notin {"error", "panicked"}

\* the download RawStreams of the returned RawResult
DownloadStreams ==
    {st \in UNION {{g.streams[i] : i \in 1..Len(g.streams)} :
                     g \in {result[1].stream_groups[n] :
                              n \in 1..Len(result[1].stream_groups)}} :
        \E n \in 1..Len(result[1].stream_groups) :
            /\ result[1].stream_groups[n].download
            /\ \E i \in 1..Len(result[1].stream_groups[n].streams) :
                  result[1].stream_groups[n].streams[i] = st}

\* C20: in every download RawStream of the result the samples are
\* non-decreasing in both time and bytes.
C20_SamplesNonDecreasing ==
    result # <<>> =>
        \A st \in DownloadStreams : \A j \in 1..(Len(st) - 1) :
            /\ st[j].time <= st[j + 1].time
            /\ st[j].bytes <= st[j + 1].bytes

\* a download stream of the result with two samples, the later one with more
\* time and more bytes
C20_Witness ==
    /\ result # <<>>
    /\ \E st \in DownloadStreams :
          /\ Len(st) >= 2
          /\ st[1].time < st[2].time
          /\ st[1].bytes < st[2].bytes

\* C21: in every download RawStream of the result every sample has a
\* strictly greater time and a strictly greater byte count than the sample
\* before it, also when no byte arrived between the two samples.
C21_SamplesStrictlyIncreasing ==
    result # <<>> =>
        \A st \in DownloadStreams : \A j \in 1..(Len(st) - 1) :
            /\ st[j].time < st[j + 1].time
            /\ st[j].bytes < st[j + 1].bytes

\* C22: the phases read by every receiver of the watch channel are the phases
\* the orchestrator sent, in order and with none skipped: what a receiver has
\* read is always a prefix of what was sent.
C22_ObservedPrefix ==
    /\ \A k \in Kinds : \A i \in Ordinals : IsPrefix(observed[k][i], emitted)
    /\ IsPrefix(recv_observed, emitted)

\* C23: Done is sent on the control connection after End was sent and before
\* EndPingRecv is sent.
C23_DoneBeforeDrain ==
    [][(~In("Done", control) /\ In("Done", control'))
       => (In(End, emitted) /\ ~In(EndPingRecv, emitted))]_vars

\* the messages a loader has sent on its auxiliary connection
AuxMsgs(k, i) == [n \in 1..Len(aux[k][i]) |-> aux[k][i][n].msg]

\* C24: when GetMeasurements is sent on the control connection, every
\* auxiliary connection of the test has sent its Hello and its Associate.
C24_GetMeasurementsAfterAssociate ==
    [][(~In("GetMeasurements", control) /\ In("GetMeasurements", control'))
       => \A k \in Kinds : \A i \in Ordinals :
             Enabled(k) => IsPrefix(<<"Hello", "Associate">>, AuxMsgs(k, i))]_vars

\* the auxiliary connections that have sent LoadFromClient
UploadConnections ==
    {c \in Kinds \X Ordinals : In("LoadFromClient", AuxMsgs(c[1], c[2]))}

\* C25: the messages of every auxiliary connection are a prefix of Hello,
\* Associate, LoadFromClient or of Hello, Associate, LoadFromServer, Done, and
\* no two connections send LoadFromClient with the same TestStream.
C25_OneStreamPerConnection ==
    /\ \A k \in Kinds : \A i \in Ordinals :
          \/ IsPrefix(AuxMsgs(k, i), <<"Hello", "Associate", "LoadFromClient">>)
          \/ IsPrefix(AuxMsgs(k, i), <<"Hello", "Associate", "LoadFromServer", "Done">>)
    /\ \A c, d \in UploadConnections :
          aux[c[1]][c[2]][3].stream = aux[d[1]][d[2]][3].stream => c = d

\* two upload connections of one group and two of the other have sent their
\* LoadFromClient, and a download connection its LoadFromServer and Done
C25_Witness ==
    /\ Cardinality(UploadConnections) >= 4
    /\ \E k \in DownKinds : \E i \in Ordinals :
          AuxMsgs(k, i) = <<"Hello", "Associate", "LoadFromServer", "Done">>

\* C26: the k-th ping ping_send puts on the socket (k from 0) carries index k,
\* and the sent list is as long as the number of pings sent.
C26_DenseIndices ==
    /\ Len(pings_sent) = Len(wire)
    /\ \A k \in 1..Len(wire) : wire[k] = k - 1

\* ping_send has sent as many pings as the run allows
C26_Witness ==
    /\ Len(wire) = MaxPings
    /\ Len(pings_sent) = MaxPings

\* C27: ping_send sends only on a tick that reads a phase below End, breaks
\* only on a tick that reads End or EndPingRecv, sends nothing after it broke,
\* and once End was sent it eventually breaks.
C27_SenderStopsAtEnd ==
    /\ [][pings_sent' # pings_sent => state < End]_vars
    /\ [][(ping_send_pc = "running" /\ ping_send_pc' = "done") => state >= End]_vars
    /\ [][ping_send_pc = "done" => pings_sent' = pings_sent]_vars
    /\ (In(End, emitted) /\ ping_send_pc = "running") ~> (ping_send_pc = "done")

\* ping_send broke at End after it had sent a ping
C27_Witness ==
    /\ ping_send_pc = "done"
    /\ state = End
    /\ Len(pings_sent) >= 1

\* C28: ping_recv ends only when the phase is EndPingRecv, records nothing
\* after it ended, and once EndPingRecv was sent it eventually ends, also
\* when no datagram ever arrived.
C28_ReceiverStopsAtEndPingRecv ==
    /\ [](ping_recv_pc = "done" => state = EndPingRecv)
    /\ [][ping_recv_pc = "done" => storage' = storage]_vars
    /\ (In(EndPingRecv, emitted) /\ ping_recv_pc = "running") ~> (ping_recv_pc = "done")

\* ping_recv ended without having received a datagram although pings were sent
C28_Witness ==
    /\ ping_recv_pc = "done"
    /\ storage = <<>>
    /\ Len(pings_sent) >= 1

\* the matched calibration samples of the step in which measure_latency returns
Matched == CalibrationPings(cal_sent, cal_recv, std)

\* measure_latency returns Ok in this step
MeasureLatencyOk == pc = "measure_latency" /\ pc' = "spawn"

\* C29: the latency measure_latency returns is the round trip of a matched
\* sample with at most floor(n/2) smaller round trips and at least
\* floor(n/2)+1 round trips not greater (position floor(n/2) in ascending
\* order), and the offset is that sample's sent + latency/2 minus its server
\* time, modulo 2^64.
C29_MedianSample ==
    [][MeasureLatencyOk =>
          LET n == Len(Matched) IN
          \E j \in 1..n :
              /\ Cardinality({h \in 1..n : Matched[h][2] < Matched[j][2]}) <= n \div 2
              /\ Cardinality({h \in 1..n : Matched[h][2] <= Matched[j][2]}) >= (n \div 2) + 1
              /\ latency' = Matched[j][2]
              /\ server_time_offset'
                    = (Matched[j][1] + (Matched[j][2] \div 2) + Wrap - Matched[j][3]) % Wrap]_vars

\* measure_latency is about to return with two matched samples of different
\* round trips
C29_Witness ==
    /\ pc = "measure_latency"
    /\ cal_end
    /\ Len(cal_sent) = limits.samples
    /\ Len(Matched) >= 2
    /\ Matched[1][2] < Matched[2][2]

\* C30: when the server time of the chosen sample is greater than its
\* server_pong, every later server timestamp t plus the offset, modulo 2^64,
\* is server_pong + (t - server time).
C30_OffsetUnderWrap ==
    [][MeasureLatencyOk =>
          LET median == Matched[(Len(Matched) \div 2) + 1]
              server_pong == median[1] + (median[2] \div 2)
              server_time == median[3]
          IN  server_time > server_pong =>
                  \A t \in server_time..(Wrap - 1) :
                      (t + server_time_offset') % Wrap = server_pong + (t - server_time)]_vars

\* measure_latency returned an offset that wrapped: the server clock is ahead
C30_Witness ==
    /\ pc = "spawn"
    /\ skew > 0
    /\ server_time_offset > Wrap \div 2

\* C31: the calibration sender puts exactly `samples` pings on the socket,
\* with the indices 0..samples-1 in order, and sends none after them; the
\* receiver records nothing after its deadline; measure_latency returns only
\* after all pings were sent and the deadline passed, and it always returns,
\* a value or an error, also when no reply or fewer replies than pings arrive.
C31_CalibrationTerminates ==
    /\ [](/\ Len(cal_wire) <= limits.samples
          /\ \A k \in 1..Len(cal_wire) : cal_wire[k] = k - 1)
    /\ [][cal_end => (cal_recv' = cal_recv \/ cal_recv' = <<>>)]_vars
    /\ [][(pc = "measure_latency" /\ pc' # pc)
            => (Len(cal_wire) = limits.samples /\ cal_end)]_vars
    /\ [][pc # "measure_latency" => cal_wire' = cal_wire]_vars
    /\ (pc = "measure_latency") ~> (pc \in {"spawn", "error"})

\* measure_latency returned its error after all pings were sent and no reply
\* arrived
C31_Witness ==
    /\ pc = "error"
    /\ error = "LatencyUnmeasurable"
    /\ Len(cal_wire) = MaxSamples
    /\ cal_wire[MaxSamples] = MaxSamples - 1

\* the entries of a loader's upload_log that are writes
Writes(k, i) == {n \in 1..Len(upload_log[k][i]) : upload_log[k][i][n].ev = "write"}

\* C32: an upload loader sends LoadFromClient at most once, only after it
\* read its activating phase and its stagger sleep ended, and before its first
\* payload write; every payload write starts at a time before `stopping`
\* (load start + load_duration); the loader stops only at a check made at or
\* after `stopping`, and writes nothing once it has stopped.
C32_UploadWindow ==
    /\ [](\A k \in UpKinds : \A i \in Ordinals :
            /\ Cardinality({n \in 1..Len(aux[k][i]) :
                              aux[k][i][n].msg = "LoadFromClient"}) <= 1
            /\ In("LoadFromClient", AuxMsgs(k, i))
                  => /\ In(ActivatingState(k), observed[k][i])
                     /\ loader[k][i] \in {"writing", "yield", "closed"}
                     /\ stopping[k][i] >= 0
            /\ upload_log[k][i] # <<>> => In("LoadFromClient", AuxMsgs(k, i))
            /\ \A n \in Writes(k, i) : upload_log[k][i][n].time < stopping[k][i])
    /\ [][\A k \in UpKinds : \A i \in Ordinals :
            /\ (loader[k][i] # "closed" /\ loader'[k][i] = "closed")
                  => now >= stopping[k][i]
            /\ loader[k][i] = "closed"
                  => (upload_log'[k][i] = upload_log[k][i] /\ aux'[k][i] = aux[k][i])]_vars

\* an upload loader wrote the payload before `stopping`, yielded, found the
\* time at `stopping` at its next check and stopped
C32_Witness ==
    \E i \in Ordinals :
        /\ loader["upload"][i] = "closed"
        /\ Len(upload_log["upload"][i]) = 2
        /\ upload_log["upload"][i][1].ev = "write"
        /\ upload_log["upload"][i][2].time >= stopping["upload"][i]
        /\ now = stopping["upload"][i]

\* C33: an upload loader yields after every payload write: in the order of
\* what it does, every write is followed by a yield before its next write,
\* and a loader that has written and not yet yielded is at its yield point.
C33_YieldAfterEveryWrite ==
    \A k \in UpKinds : \A i \in Ordinals :
        LET log == upload_log[k][i] IN
        /\ \A n \in 1..(Len(log) - 1) :
              log[n].ev = "write" => log[n + 1].ev = "yield"
        /\ (log # <<>> /\ log[Len(log)].ev = "write") <=> loader[k][i] = "yield"

\* ping_send put a ping on the socket between two payload writes of one upload
\* loader, whose socket accepted both at once (the clock did not advance)
C33_Witness ==
    \E i \in Ordinals :
        LET log == upload_log["upload"][i] IN
        /\ Len(log) >= 3
        /\ log[1].ev = "write" /\ log[2].ev = "yield" /\ log[3].ev = "write"
        /\ log[1].time = log[3].time
        /\ log[1].pings < log[3].pings

\* C34: the permits of the download semaphore are the loaders whose read loop
\* ended and whose stop flag is stored: a permit is added only in the step in
\* which a loader reads end-of-stream, one at a time, and every loader of a
\* finished run has added one; a sample the counter task pushes once the flag
\* is stored is its last, and a counter task that ended pushes nothing.
C34_PermitAfterEosAndFlag ==
    /\ [](semaphore["download"]
            = Cardinality({i \in Ordinals : DoneFlag("download", i)}))
    /\ [](result # <<>> => semaphore["download"] = config.streams)
    /\ [][semaphore'["download"] # semaphore["download"] =>
            /\ semaphore'["download"] = semaphore["download"] + 1
            /\ \E i \in Ordinals :
                  /\ loader["download"][i] = "stopping"
                  /\ loader'["download"][i] = "eos"]_vars
    /\ [][\A i \in Ordinals :
            /\ (DoneFlag("download", i)
                  /\ measures'["download"][i] # measures["download"][i])
                  => counter_pc'["download"][i] = "finished"
            /\ counter_pc["download"][i] = "finished"
                  => /\ measures'["download"][i] = measures["download"][i]
                     /\ counter_pc'["download"][i] = "finished"]_vars

\* a finished run of two loaders one of whose counter tasks had loaded its
\* sample before the stop flag was stored and pushed it afterwards
C34_Witness ==
    /\ result # <<>>
    /\ config.streams = 2
    /\ semaphore["download"] = 2
    /\ \E i \in Ordinals :
          /\ Len(measures["download"][i]) = 1
          /\ measures["download"][i][1][2] < bytes["download"][i]

\* C35: when a download loader has returned, the last sample of its counter
\* task carries the total of the bytes its reading task has read.
C35_LastSampleIsTotal ==
    \A i \in Ordinals :
        loader["download"][i] = "returned" =>
            LET m == measures["download"][i] IN
            m # <<>> /\ m[Len(m)][2] = bytes["download"][i]

\* the grace phase the orchestrator sends when it leaves the load phase of a
\* kind of loaders
GraceAfter(k) ==
    CASE k = "download" -> Grace2
      [] k = "upload" -> Grace3
      [] k \in {"both_download", "both_upload"} -> Grace4

\* C36: a loader reads its activating phase only after the orchestrator sent
\* it; the orchestrator leaves a load phase only when every loader of that
\* phase has read it and finished its load; every loader task that was
\* spawned, however late its connection setup completes, eventually reads its
\* activating phase; and a run whose loaders were spawned eventually sends
\* EndPingRecv.
C36_NoLoaderMissesItsPhase ==
    /\ [](\A k \in Kinds : \A i \in Ordinals :
            /\ In(ActivatingState(k), observed[k][i])
                  => In(ActivatingState(k), emitted)
            /\ (Enabled(k) /\ In(GraceAfter(k), emitted))
                  => /\ In(ActivatingState(k), observed[k][i])
                     /\ loader[k][i] \in {"eos", "returned", "closed"})
    /\ (pc = "get_measurements")
          ~> (/\ \A k \in Kinds : \A i \in Ordinals :
                    Enabled(k) => In(ActivatingState(k), observed[k][i])
              /\ In(EndPingRecv, emitted))

\* the upload phase is still held although one of its loaders has finished
\* and the server reported its stream done: the other loader completed its
\* setup late and has only now read LoadFromClient
C36_Witness ==
    /\ config.streams = 2
    /\ state = LoadFromClient
    /\ pc = "acquire_upload"
    /\ loader["upload"][0] = "closed"
    /\ <<0, 0>> \in stream_done
    /\ loader["upload"][1] = "stagger"
    /\ observed["upload"][1] = <<LoadFromClient>>

\* the load requests a loader has sent on its auxiliary connection
LoadRequests(k, i) ==
    {n \in 1..Len(aux[k][i]) : aux[k][i][n].msg \in {"LoadFromClient", "LoadFromServer"}}

\* C37: once test_async has returned an error and dropped the phase sender
\* with loader tasks spawned, no loader sends a load request, and every
\* loader task, whether it was waiting for its activating phase or had yet to
\* finish its connection setup, eventually ends.
C37_DroppedSenderEndsLoaders ==
    /\ [](pc = "error" /\ closed =>
            \A k \in Kinds : \A i \in Ordinals :
                /\ LoadRequests(k, i) = {}
                /\ loader[k][i] \in {"none", "connect", "wait", "panicked"})
    /\ (pc = "error" /\ closed)
          ~> (\A k \in Kinds : \A i \in Ordinals :
                 loader[k][i] \in {"none", "panicked"})

\* test_async returned the error of the send of GetMeasurements and all four
\* loader tasks of a download and upload test have ended in wait_for_state,
\* having sent Hello and Associate only
C37_Witness ==
    /\ pc = "error" /\ error = "SendFailed" /\ closed
    /\ state = Setup
    /\ config.download /\ config.upload /\ ~config.both
    /\ config.streams = 2
    /\ \A k \in {"download", "upload"} : \A i \in Ordinals :
          /\ loader[k][i] = "panicked"
          /\ AuxMsgs(k, i) = <<"Hello", "Associate">>

\* C38: the done callback is never called twice, and when the thread of
\* test_callback has ended it was called exactly once, whether the caller
\* sent on the cancel handle, kept it or dropped it.
C38_DoneExactlyOnce ==
    /\ Len(delivered) <= 1
    /\ callback_pc \in {"ended", "panicked"} => Len(delivered) = 1

\* the changes of a panel's state that the claim allows
PanelTransitions ==
    {<<"Stopped", "Starting">>, <<"StoppedError", "Starting">>,
     <<"Starting", "Running">>, <<"Starting", "StoppedError">>,
     <<"Running", "Stopping">>, <<"Stopping", "Stopped">>}

\* C39: in the server panel and in the remote panel, after any frames and
\* clicks, the server record is present iff the state is Starting, Running or
\* Stopping; its stop handle is present in Starting and Running only; the
\* handle is taken and sent on exactly on the step from Running to Stopping,
\* so once for each server started; and the state changes only by Stopped ->
\* Starting, Starting -> Running, Starting -> Stopped(error), Running ->
\* Stopping and Stopping -> Stopped.
C39_ServerPanel ==
    /\ [](\A p \in Panels :
            /\ server_record[p] # <<>>
                  <=> server_state[p] \in {"Starting", "Running", "Stopping"}
            /\ (server_record[p] # <<>> /\ server_record[p][1].stop = "Some")
                  <=> server_state[p] \in {"Starting", "Running"}
            /\ server_state[p] = "Stopping" => serve[p].stop = "signalled"
            /\ server_state[p] \in {"Starting", "Running"} => serve[p].stop = "open")
    /\ [][\A p \in Panels :
            /\ server_state'[p] # server_state[p]
                  => <<server_state[p], server_state'[p]>> \in PanelTransitions
            /\ (serve[p].stop = "open" /\ serve'[p].stop = "signalled")
                  <=> (server_state[p] = "Running" /\ server_state'[p] = "Stopping")
            /\ serve[p].stop = "signalled" /\ serve'[p].stop # "signalled"
                  => (server_state[p] \in {"Stopped", "StoppedError"}
                      /\ server_state'[p] = "Starting")]_vars

\* one panel has gone through Starting, Running and Stopping back to Stopped,
\* the other is stopped by a server that failed to start
C39_Witness ==
    /\ server_state["server"] = "Stopped"
    /\ serve["server"].stop = "signalled"
    /\ serve["server"].done = "taken"
    /\ server_state["remote"] = "StoppedError"
    /\ serve["remote"].started = "taken"
    /\ server_record = [p \in Panels |-> <<>>]

C40_WitnessStopping ==
    /\ gui_pc = "running"
    /\ latency_state = "Stopping"
    /\ monitor.done = "sent"

====
